---- MODULE Spec2Model ----
(***************************************************************************)
(* Model of the open-world exploration map core:                           *)
(*   - rectangle compaction of a cell set (lib/grid: mergeToRectangles)    *)
(*   - the tiled road cache with its circuit breaker (lib/tiles)           *)
(* Strings are modelled as sequences of one-character strings.             *)
(***************************************************************************)
EXTENDS Integers, Sequences, FiniteSets, TLC

VARIABLES
    \* ---- rectangle compaction (lib/grid) ----
    cells,          \* the input Set<string> of cell keys
    rectangles,     \* the Rectangle[] returned by mergeToRectangles
    gridPc,         \* "input" before the call, "merged" after it
    \* ---- tile source and circuit breaker (lib/tiles, module state) ----
    PMTILES_URL,    \* the configured archive URL, "" before configuration
    pmtiles,        \* the PMTiles client: its URL, or null
    failureCount,   \* consecutive failures counted by fetchTileBytes
    circuitOpen,    \* the breaker: TRUE is Open
    \* ---- concurrent callers of fetchTileBytes ----
    inflightCur,    \* getZxy calls in flight on the current client object
    inflightOld,    \* getZxy calls in flight on clients replaced since
    streak,         \* history: fetch failures completed since the last
                    \* successful fetch or reconfiguration (capped)
    fresh,          \* history: the URL was changed to a non-empty URL and
                    \* no fetch has been attempted since
    ev,             \* history: what the last step did, and the counter
                    \* and breaker it found
    \* ---- bbox queries and the tile cache (lib/tiles) ----
    qs,             \* per caller: the getRoadCellsForBbox call in progress
    cache,          \* the roadTileCells store: key -> <<>> or <<cells>>
    served,         \* history, per key: "decoded" / "stored" once a query
                    \* that fetched and decoded (and stored) it has returned
    \* ---- the worker pool of one bbox query (lib/tiles) ----
    pool,           \* the queue, the workers and the tile operations of
                    \* one getRoadCellsForBbox call over many tiles
    \* ---- the activity worker (worker/processor) ----
    worker,         \* the module state of the worker, its suspended
                    \* processActivities / reprocessAllActivities calls and
                    \* history of the current accumulation
    \* ---- the privacy trim (lib/projection) ----
    trim,           \* one call of trimPolylineByDistance: arguments, result
    \* ---- coverage statistics (lib/stats) ----
    stats,          \* one call of computeVisitedCountForCells: arguments,
                    \* result
    \* ---- city statistics (lib/stats, worker/city-processor) ----
    ranking,        \* one call of getStats: the cities, the visited cells
                    \* and the returned list
    \* ---- cell keys and rasterization (lib/projection, lib/tiles) ----
    proj,           \* one call of a projection function: arguments, result
    \* ---- road cells of the discovered cities (worker/city-processor) ----
    cityq,          \* the CityManager's cities and road-cell queue
    \* ---- the city manager and its worker (geocoding/city-manager) ----
    mgr             \* the promises, the resolvers, the messages, the worker

gridVars == <<cells, rectangles, gridPc>>

breakerVars == <<PMTILES_URL, pmtiles, failureCount, circuitOpen>>

callerVars == <<inflightCur, inflightOld, streak, fresh, ev>>

queryVars == <<qs, cache, served>>

poolVars == <<pool>>

workerVars == <<worker>>

trimVars == <<trim>>

statsVars == <<stats>>

rankingVars == <<ranking>>

projVars == <<proj>>

cityVars == <<cityq>>

mgrVars == <<mgr>>

vars == <<cells, rectangles, gridPc,
          PMTILES_URL, pmtiles, failureCount, circuitOpen,
          inflightCur, inflightOld, streak, fresh, ev,
          qs, cache, served,
          pool, worker, trim, stats, ranking, proj, cityq, mgr>>

(***************************************************************************)
(* Bounds                                                                  *)
(***************************************************************************)
\* cell x-coordinates range over GridLo .. GridLo + GridW - 1
GridW == 3
\* cell y-coordinates range over GridLo .. GridLo + GridH - 1
GridH == 3

GridLo == 0 - 1
\* concurrent fetchTileBytes calls modelled (the pool allows CONCURRENCY)
MaxInFlight == 5
\* tiles of the modelled tile row: x in 0 .. NumTiles - 1
NumTiles == 2
\* planar half-width of a tile: a tile spans 2 * TileHalf planar units
TileHalf == 2
\* the largest number of tiles covered by a query of the worker-pool
\* specification (more than CONCURRENCY, so that workers loop)
MaxPoolTiles == 34
\* the activities known to the main thread are 1 .. MaxActivities (more than
\* one batch)
MaxActivities == 21
\* the main thread sends the worker up to MaxMessages messages
MaxMessages == 5
\* the city manager is asked up to MaxCalls times for viewport statistics and
\* as often for a discovery, for one of MaxBounds viewports
MaxCalls == 2
MaxBounds == 2
\* polylines of the trim specification have up to MaxPoints points at
\* 0 .. MaxCoord metres along a meridian, trimmed by up to MaxTrim metres
MaxPoints == 3
MaxCoord == 3
MaxTrim == 2
\* the cells of the statistics specification: StatW columns, StatH rows
StatW == 3
StatH == 2
\* the largest target and visited sets of the statistics specification
MaxTargetCells == 3
MaxVisitedCells == 2
MaxCities == 22
\* cell coordinates of the key round trip: -MaxCell .. MaxCell
MaxCell == 11
\* the longest string handed to parseCellKey
MaxKeyLen == 3
\* planar coordinates handed to pointToCell: -MaxPlanar .. MaxPlanar metres
MaxPlanar == 6
\* cell sizes of the projection specification: 1 .. MaxCellSize metres
MaxCellSize == 3
\* segment end points: -MaxSegment .. MaxSegment metres on both axes
MaxSegment == 2
\* the cities discovered by the CityManager
MaxQueuedCities == 2

(***************************************************************************)
(* Program constants                                                       *)
(***************************************************************************)
MAX_FAILURES == 5
CONCURRENCY == 32
DefaultZoom == 14
\* batchSize of processActivities and reprocessAllActivities
BatchSize == 20
\* currentConfig.cellSize of a fresh worker
DefaultCellSize == 25

(***************************************************************************)
(* JavaScript values used by the helpers                                   *)
(***************************************************************************)
NaN == "NaN"
undefined == "undefined"
null == "null"

Min2(a, b) == IF a <= b THEN a ELSE b
Max2(a, b) == IF a >= b THEN a ELSE b

(***************************************************************************)
(* Cell keys (projection: cellKey / parseCellKey)                          *)
(***************************************************************************)
DigitChars == <<"0", "1", "2", "3", "4", "5", "6", "7", "8", "9">>

DigitValue(c) == CHOOSE d \in 0..9 : DigitChars[d + 1] = c

IsDigit(c) == \E d \in 0..9 : DigitChars[d + 1] = c

\* `${n}` for a non-negative integer
RECURSIVE NatStr(_)
NatStr(n) ==
    IF n < 10 THEN <<DigitChars[n + 1]>>
    ELSE NatStr(n \div 10) \o <<DigitChars[(n % 10) + 1]>>

NumStrDropsSign(n) == IF n < 0 THEN NatStr(0 - n) ELSE NatStr(n)

\* `${n}` for an integer
NumStr(n) == IF n < 0 THEN <<"-">> \o NatStr(0 - n) ELSE NatStr(n)

\* cellKey(cellX, cellY) = `${cellX},${cellY}`
cellKey(cellX, cellY) == NumStr(cellX) \o <<",">> \o NumStr(cellY)

\* String.prototype.split(sep) for a one-character separator
RECURSIVE SplitFrom(_, _, _, _)
SplitFrom(s, sep, i, cur) ==
    IF i > Len(s) THEN <<cur>>
    ELSE IF s[i] = sep THEN <<cur>> \o SplitFrom(s, sep, i + 1, <<>>)
    ELSE SplitFrom(s, sep, i + 1, Append(cur, s[i]))

Split(s, sep) == SplitFrom(s, sep, 1, <<>>)

RECURSIVE DigitsValue(_, _)
DigitsValue(s, acc) ==
    IF s = <<>> THEN acc
    ELSE DigitsValue(Tail(s), acc * 10 + DigitValue(Head(s)))

\* Number(s) on the strings the model builds: "" is 0, an optionally signed
\* run of decimal digits is its value, anything else is NaN
NumericString(s) ==
    \/ s = <<>>
    \/ LET body == IF Head(s) \in {"-", "+"} THEN Tail(s) ELSE s
       IN  body # <<>> /\ \A i \in 1..Len(body) : IsDigit(body[i])

Number(s) ==
    IF ~NumericString(s) THEN NaN
    ELSE IF s = <<>> THEN 0
    ELSE LET neg == Head(s) = "-"
             body == IF Head(s) \in {"-", "+"} THEN Tail(s) ELSE s
         IN  IF neg THEN 0 - DigitsValue(body, 0) ELSE DigitsValue(body, 0)

\* const [x, y] = key.split(",").map(Number)
parseCellKey(key) ==
    LET parts == Split(key, ",")
    IN  [x |-> Number(parts[1]),
         y |-> IF Len(parts) >= 2 THEN Number(parts[2]) ELSE undefined]

(***************************************************************************)
(* Rectangle compaction (lib/grid)                                         *)
(***************************************************************************)
\* while (cells.has(cellKey(start.x + width, start.y))) width++
RECURSIVE ScanWidth(_, _, _)
ScanWidth(start, cs, width) ==
    IF cellKey(start.x + width, start.y) \in cs
    THEN ScanWidth(start, cs, width + 1)
    ELSE width

\* the for-loop over dx: the next row has all required cells
RowPresentFirstCellOnly(start, cs, width, height) ==
    cellKey(start.x, start.y + height) \in cs

RowPresent(start, cs, width, height) ==
    \A dx \in 0..(width - 1) : cellKey(start.x + dx, start.y + height) \in cs

\* while (canGrowDown) { ... height++ }
RECURSIVE ScanHeight(_, _, _, _)
ScanHeight(start, cs, width, height) ==
    IF RowPresent(start, cs, width, height)
    THEN ScanHeight(start, cs, width, height + 1)
    ELSE height

\* growRectangle: the rectangle (<<>> stands for null, <<r>> for r) and the
\* processed set it leaves
growRectangle(start, cs, processed) ==
    LET startKey == cellKey(start.x, start.y)
    IN  IF startKey \notin cs \/ startKey \in processed
        THEN [rect |-> <<>>, processed |-> processed]
        ELSE LET width == ScanWidth(start, cs, 1)
                 height == ScanHeight(start, cs, width, 1)
             IN  [rect |-> <<[minX |-> start.x,
                             minY |-> start.y,
                             maxX |-> start.x + width - 1,
                             maxY |-> start.y + height - 1]>>,
                  processed |-> processed \cup
                      {cellKey(start.x + dx, start.y + dy) :
                          dx \in 0..(width - 1), dy \in 0..(height - 1)}]

\* cellCoords.sort((a, b) => a.y - b.y || a.x - b.x)
CellBefore(a, b) == a.y < b.y \/ (a.y = b.y /\ a.x < b.x)

RECURSIVE SortCells(_)
SortCells(S) ==
    IF S = {} THEN <<>>
    ELSE LET m == CHOOSE a \in S : \A b \in S \ {a} : CellBefore(a, b)
         IN  <<m>> \o SortCells(S \ {m})

\* [...rectangles].sort((a, b) => a.minX - b.minX || a.minY - b.minY)
RectBefore(a, b) == a.minX < b.minX \/ (a.minX = b.minX /\ a.minY < b.minY)

RECURSIVE SortRects(_)
SortRects(S) ==
    IF S = {} THEN <<>>
    ELSE LET m == CHOOSE a \in S : \A b \in S \ {a} : RectBefore(a, b) \/ a = b
         IN  <<m>> \o SortRects(S \ {m})

SeqRange(s) == {s[i] : i \in 1..Len(s)}

\* the loop of mergeVerticalRectangles over sorted[i..]
RECURSIVE MergeVerticalLoop(_, _, _, _)
MergeVerticalLoop(sorted, i, current, merged) ==
    IF i > Len(sorted) THEN Append(merged, current)
    ELSE LET next == sorted[i]
         IN  IF current.minX = next.minX /\ current.maxX = next.maxX
                  /\ current.maxY + 1 = next.minY
             THEN MergeVerticalLoop(sorted, i + 1,
                      [current EXCEPT !.maxY = next.maxY], merged)
             ELSE MergeVerticalLoop(sorted, i + 1, next, Append(merged, current))

mergeVerticalRectangles(rects) ==
    IF Len(rects) = 0 THEN <<>>
    ELSE LET sorted == SortRects(SeqRange(rects))
         IN  MergeVerticalLoop(sorted, 2, sorted[1], <<>>)

\* the for-loop of mergeToRectangles over cellCoords[i..]
RECURSIVE RowScanLoop(_, _, _, _, _)
RowScanLoop(cellCoords, i, cs, processed, rects) ==
    IF i > Len(cellCoords) THEN rects
    ELSE LET cell == cellCoords[i]
             key == cellKey(cell.x, cell.y)
         IN  IF key \in processed
             THEN RowScanLoop(cellCoords, i + 1, cs, processed, rects)
             ELSE LET g == growRectangle(cell, cs, processed)
                  IN  RowScanLoop(cellCoords, i + 1, cs, g.processed,
                          rects \o g.rect)

mergeToRectangles(cs) ==
    IF Cardinality(cs) = 0 THEN <<>>
    ELSE LET cellCoords == SortCells({parseCellKey(k) : k \in cs})
         IN  mergeVerticalRectangles(RowScanLoop(cellCoords, 1, cs, {}, <<>>))

\* rectangleToCells(rect)
rectangleToCells(rect) ==
    {cellKey(x, y) : x \in rect.minX..rect.maxX, y \in rect.minY..rect.maxY}

\* isPointInRectangles restricted to one rectangle
InRect(x, y, rect) ==
    x >= rect.minX /\ x <= rect.maxX /\ y >= rect.minY /\ y <= rect.maxY

(***************************************************************************)
(* Tile source and circuit breaker (lib/tiles)                             *)
(***************************************************************************)
\* the URLs a caller may pass to setRoadPMTilesURL
SourceURLs == {"", "a", "b"}

\* let PMTILES_URL = ""; let pmtiles = null; let failureCount = 0;
\* let circuitOpen = false
BreakerInit ==
    /\ PMTILES_URL = ""
    /\ pmtiles = null
    /\ failureCount = 0
    /\ circuitOpen = FALSE

\* setRoadPMTilesURL(url): its effect on the module state
setRoadPMTilesURL(url) ==
    IF PMTILES_URL = url
    THEN UNCHANGED breakerVars
    ELSE /\ PMTILES_URL' = url
         /\ pmtiles' = (IF url # "" THEN url ELSE null)
         /\ failureCount' = 0
         /\ circuitOpen' = FALSE

\* fetchTileBytes up to its await: what the two guards decide
FetchGate ==
    IF pmtiles = null THEN "noClient"
    ELSE IF circuitOpen THEN "circuitOpen"
    ELSE "call"

\* fetchTileBytes after getZxy resolved: failureCount = 0
FetchResolvedKeepsCount ==
    UNCHANGED <<failureCount, circuitOpen>>

FetchResolvedClosesBreaker ==
    /\ failureCount' = 0
    /\ circuitOpen' = FALSE

FetchResolved ==
    /\ failureCount' = 0
    /\ UNCHANGED circuitOpen

\* fetchTileBytes after getZxy rejected: the catch block
FetchRejectedOpensLate ==
    /\ failureCount' = failureCount + 1
    /\ circuitOpen' = (IF failureCount + 1 > MAX_FAILURES THEN TRUE ELSE circuitOpen)

FetchRejected ==
    /\ failureCount' = failureCount + 1
    /\ circuitOpen' = (IF failureCount + 1 >= MAX_FAILURES THEN TRUE ELSE circuitOpen)

(***************************************************************************)
(* Specification of the breaker under concurrent callers: any caller may   *)
(* call fetchTileBytes while earlier calls are still awaiting getZxy.      *)
(***************************************************************************)
Event(kind) == [kind |-> kind, was |-> failureCount, wasOpen |-> circuitOpen]

CallerInit ==
    /\ inflightCur = 0
    /\ inflightOld = 0
    /\ streak = 0
    /\ fresh = FALSE
    /\ ev = [kind |-> "init", was |-> 0, wasOpen |-> FALSE]

\* a call of setRoadPMTilesURL(url); a changed URL replaces the client
\* object, so the calls in flight are then calls on a replaced client
ConfigureSource(url) ==
    /\ UNCHANGED <<gridVars, queryVars, poolVars, workerVars, trimVars, statsVars,
                   rankingVars, projVars, cityVars, mgrVars>>
    /\ setRoadPMTilesURL(url)
    /\ IF PMTILES_URL = url
       THEN UNCHANGED <<inflightCur, inflightOld, streak, fresh>>
       ELSE /\ inflightOld' = inflightOld + inflightCur
            /\ inflightCur' = 0
            /\ streak' = 0
            /\ fresh' = (url # "")
    /\ ev' = Event(IF PMTILES_URL = url THEN "sameURL" ELSE "newURL")

\* a call of fetchTileBytes, up to its await (or its early return of null)
AttemptFetch ==
    /\ UNCHANGED <<gridVars, queryVars, poolVars, workerVars, trimVars, statsVars,
                   rankingVars, projVars, cityVars, mgrVars>>
    /\ inflightCur + inflightOld < MaxInFlight
    /\ ev' = Event(FetchGate)
    /\ inflightCur' = (IF FetchGate = "call" THEN inflightCur + 1 ELSE inflightCur)
    /\ fresh' = FALSE
    /\ UNCHANGED <<breakerVars, inflightOld, streak>>

\* getZxy resolves for a call on the current client (data or no data)
ResolveCurrent(hasData) ==
    /\ UNCHANGED <<gridVars, queryVars, poolVars, workerVars, trimVars, statsVars,
                   rankingVars, projVars, cityVars, mgrVars>>
    /\ inflightCur > 0
    /\ inflightCur' = inflightCur - 1
    /\ FetchResolved
    /\ streak' = 0
    /\ ev' = Event(IF hasData THEN "data" ELSE "noData")
    /\ UNCHANGED <<PMTILES_URL, pmtiles, inflightOld, fresh>>

\* getZxy resolves for a call on a replaced client
ResolveOld(hasData) ==
    /\ UNCHANGED <<gridVars, queryVars, poolVars, workerVars, trimVars, statsVars,
                   rankingVars, projVars, cityVars, mgrVars>>
    /\ inflightOld > 0
    /\ inflightOld' = inflightOld - 1
    /\ FetchResolved
    /\ streak' = 0
    /\ ev' = Event(IF hasData THEN "data" ELSE "noData")
    /\ UNCHANGED <<PMTILES_URL, pmtiles, inflightCur, fresh>>

\* getZxy rejects for a call on the current client
RejectCurrent ==
    /\ UNCHANGED <<gridVars, queryVars, poolVars, workerVars, trimVars, statsVars,
                   rankingVars, projVars, cityVars, mgrVars>>
    /\ inflightCur > 0
    /\ inflightCur' = inflightCur - 1
    /\ FetchRejected
    /\ streak' = Min2(streak + 1, MAX_FAILURES)
    /\ ev' = Event("rejected")
    /\ UNCHANGED <<PMTILES_URL, pmtiles, inflightOld, fresh>>

\* getZxy rejects for a call on a replaced client
RejectOld ==
    /\ UNCHANGED <<gridVars, queryVars, poolVars, workerVars, trimVars, statsVars,
                   rankingVars, projVars, cityVars, mgrVars>>
    /\ inflightOld > 0
    /\ inflightOld' = inflightOld - 1
    /\ FetchRejected
    /\ streak' = Min2(streak + 1, MAX_FAILURES)
    /\ ev' = Event("rejectedOld")
    /\ UNCHANGED <<PMTILES_URL, pmtiles, inflightCur, fresh>>

BreakerNext ==
    \/ \E url \in SourceURLs : ConfigureSource(url)
    \/ AttemptFetch
    \/ \E hasData \in BOOLEAN : ResolveCurrent(hasData)
    \/ \E hasData \in BOOLEAN : ResolveOld(hasData)
    \/ RejectCurrent
    \/ RejectOld

(***************************************************************************)
(* Bbox queries over the tile cache (lib/tiles: getRoadCellsForBbox)       *)
(*                                                                         *)
(* Geometry is modelled along one tile row: longitudes are measured in     *)
(* planar units (latLngToMeters is linear in lng), a tile spans            *)
(* 2 * TileHalf of them, and the latitude band of every bbox is the row.   *)
(***************************************************************************)
Slots == {1, 2}

Tiles == 0..(NumTiles - 1)

TileSpan == 2 * TileHalf

\* the tile row and its planar band
TileRow == 0
BandMinY == 0
BandMaxY == TileSpan - 1

\* the cellSize values callers pass
CellSizes == {TileHalf}

\* the bboxes callers pass: from the middle of a tile to the end of a tile
Bboxes ==
    {<<lo * TileSpan + TileHalf, hi * TileSpan + TileSpan - 1>> :
        lo \in Tiles, hi \in Tiles} \cap
    {b \in (0..(NumTiles * TileSpan)) \X (0..(NumTiles * TileSpan)) : b[1] <= b[2]}

\* tileKey(z, x, y, cellSize) = `${z}/${x}/${y}/${cellSize}`
tileKey(z, x, y, cellSize) ==
    NumStr(z) \o <<"/">> \o NumStr(x) \o <<"/">> \o NumStr(y) \o <<"/">> \o NumStr(cellSize)

TileKeys == {tileKey(DefaultZoom, x, TileRow, c) : x \in Tiles, c \in CellSizes}

\* latLngToTile: the x index of the tile holding longitude lng
latLngToTile(lng) == lng \div TileSpan

\* coverTilesForBbox: the tiles between the two corners, x ascending
coverTilesForBbox(minLng, maxLng) ==
    LET t1 == latLngToTile(minLng)
        t2 == latLngToTile(maxLng)
        minX == Min2(t1, t2)
        maxX == Max2(t1, t2)
    IN  [i \in 1..(maxX - minX + 1) |-> minX + i - 1]

pointToCellTruncates(x, cellSize) ==
    IF x >= 0 THEN x \div cellSize ELSE 0 - ((0 - x) \div cellSize)

\* pointToCell(x, y, cellSize).x = Math.floor(x / cellSize)
pointToCell(x, cellSize) == x \div cellSize

\* what decoding and rasterizing tile x yields: the road of the row passes
\* through every planar point of the tile
RoadCells(x, cellSize) ==
    {cellKey(pointToCell(p, cellSize), TileRow) :
        p \in (x * TileSpan)..(x * TileSpan + TileSpan - 1)}

\* the final filter of getRoadCellsForBbox: the cell centre
\* (sx * cellSize + cellSize / 2, sy * cellSize + cellSize / 2), compared
\* doubled to stay in the integers
filterToBboxKeepsAll(union, minLng, maxLng, cellSize) == union

filterToBbox(union, minLng, maxLng, cellSize) ==
    LET minX == Min2(minLng, maxLng)
        maxX == Max2(minLng, maxLng)
    IN  {key \in union :
            LET c == parseCellKey(key)
                cx2 == 2 * c.x * cellSize + cellSize
                cy2 == 2 * c.y * cellSize + cellSize
            IN  /\ cx2 >= 2 * minX /\ cx2 <= 2 * maxX
                /\ cy2 >= 2 * BandMinY /\ cy2 <= 2 * BandMaxY}

\* getCachedTileCells: the stored record (<<cells>>), or <<>> for null when
\* there is none or the store threw
getCachedTileCellsSwappedKey(z, x, y, cellSize, readOk) ==
    IF readOk /\ tileKey(z, y, x, cellSize) \in DOMAIN cache
    THEN cache[tileKey(z, y, x, cellSize)]
    ELSE <<>>

getCachedTileCellsBreakerFirst(z, x, y, cellSize, readOk) ==
    IF circuitOpen THEN <<>>
    ELSE IF readOk THEN cache[tileKey(z, x, y, cellSize)] ELSE <<>>

getCachedTileCells(z, x, y, cellSize, readOk) ==
    IF readOk THEN cache[tileKey(z, x, y, cellSize)] ELSE <<>>

\* cacheTileCells: db.put of the record under tileKey(z, x, y, cellSize); a
\* store error is caught and only logged
cacheTileCellsDropsOthers(z, x, y, cellSize, tileCells, putOk) ==
    IF putOk
    THEN [k \in DOMAIN cache |->
             IF k = tileKey(z, x, y, cellSize) THEN <<tileCells>> ELSE <<>>]
    ELSE cache

cacheTileCellsNextTile(z, x, y, cellSize, tileCells, putOk) ==
    IF putOk
    THEN [cache EXCEPT ![tileKey(z, (x + 1) % NumTiles, y, cellSize)] = <<tileCells>>]
    ELSE cache

cacheTileCells(z, x, y, cellSize, tileCells, putOk) ==
    IF putOk
    THEN [cache EXCEPT ![tileKey(z, x, y, cellSize)] = <<tileCells>>]
    ELSE cache

\* a caller that is not inside getRoadCellsForBbox (lastDone is history: <<t>>
\* for the tile t whose processTile settled last)
NoQuery ==
    [status |-> "idle", bbox |-> <<0, 0>>, cellSize |-> 0, zoom |-> 0,
     queue |-> <<>>,
     phase |-> [t \in Tiles |-> "none"],
     client |-> [t \in Tiles |-> null],
     readErr |-> {},
     union |-> {},
     lastDone |-> <<>>,
     result |-> {}]

QueryInit ==
    /\ qs = [q \in Slots |-> NoQuery]
    /\ cache = [k \in TileKeys |-> <<>>]
    /\ served = [k \in TileKeys |-> "no"]

\* the phases of a tile operation that await something
ActivePhases == {"read", "fetch", "put"}

\* the phases in which the tile's getZxy call has been issued
IssuedPhases == {"fetch", "put", "rejected", "noData", "badTile", "stored", "unstored"}

\* the final phases that added cells to union
CellPhases == {"hit", "stored", "unstored"}

\* the worker loop: while (queue.length > 0) { tile = queue.shift();
\* await processTile(...) }, up to the first await of processTile
WorkerLoop(qr) ==
    IF Len(qr.queue) > 0
    THEN [qr EXCEPT !.phase[Head(qr.queue)] = "read", !.queue = Tail(qr.queue)]
    ELSE qr

\* Array(Math.min(tiles.length, CONCURRENCY)).fill(null).map(async ...):
\* each worker runs to its first await before the next one starts
RECURSIVE StartWorkers(_, _)
StartWorkers(qr, n) ==
    IF n = 0 THEN qr ELSE StartWorkers(WorkerLoop(qr), n - 1)

\* processTile returns with tileCells still null; the worker loops
TileWithoutCellsRejectsQuery(qr, t, outcome) ==
    [qr EXCEPT !.phase[t] = outcome, !.status = "rejected"]

TileWithoutCells(qr, t, outcome) ==
    WorkerLoop([qr EXCEPT !.phase[t] = outcome, !.lastDone = <<t>>])

\* processTile adds tileCells to union; the worker loops
TileWithCellsReplacesUnion(qr, t, outcome, tileCells) ==
    WorkerLoop([qr EXCEPT !.phase[t] = outcome, !.union = tileCells, !.lastDone = <<t>>])

TileWithCells(qr, t, outcome, tileCells) ==
    WorkerLoop([qr EXCEPT !.phase[t] = outcome, !.union = @ \cup tileCells,
                          !.lastDone = <<t>>])

\* getRoadCellsForBbox with a client, up to await Promise.all(workers): the
\* covering tiles are queued and the workers started
StartedQuery(bbox, cellSize) ==
    LET tiles == coverTilesForBbox(bbox[1], bbox[2])
        started == [NoQuery EXCEPT !.status = "running", !.bbox = bbox,
                                   !.cellSize = cellSize,
                                   !.zoom = DefaultZoom,
                                   !.queue = tiles,
                                   !.phase = [t \in Tiles |->
                                       IF t \in SeqRange(tiles)
                                       THEN "queued" ELSE "none"]]
    IN  StartWorkers(started, Min2(Len(tiles), CONCURRENCY))

\* getRoadCellsForBbox(minLat, maxLat, minLng, maxLng, cellSize) is called:
\* without a client it returns an empty set, else the pool starts
CallGetRoadCells(q, bbox, cellSize) ==
    /\ qs[q].status # "running"
    /\ IF pmtiles = null
       THEN qs' = [qs EXCEPT ![q] =
                [NoQuery EXCEPT !.status = "returned", !.bbox = bbox,
                                !.cellSize = cellSize, !.zoom = DefaultZoom]]
       ELSE qs' = [qs EXCEPT ![q] = StartedQuery(bbox, cellSize)]
    /\ UNCHANGED <<cache, served, breakerVars, callerVars, gridVars, poolVars, workerVars, trimVars, statsVars,
                   rankingVars, projVars, cityVars, mgrVars>>

\* getCachedTileCells settles for tile t: the record, or null when there is
\* none or the store threw; on null processTile calls fetchTileBytes, which
\* returns null at once or issues getZxy on the current client
CacheReadDone(q, t, readOk) ==
    LET qr == qs[q]
        rec == getCachedTileCells(qr.zoom, t, TileRow, qr.cellSize, readOk)
        qe == IF readOk THEN qr ELSE [qr EXCEPT !.readErr = @ \cup {t}]
    IN  /\ qr.status = "running"
        /\ qr.phase[t] = "read"
        /\ qs' = [qs EXCEPT ![q] =
               IF rec # <<>> THEN TileWithCells(qe, t, "hit", rec[1])
               ELSE IF FetchGate = "call"
                    THEN [qe EXCEPT !.phase[t] = "fetch", !.client[t] = pmtiles]
                    ELSE TileWithoutCells(qe, t, FetchGate)]
        /\ UNCHANGED <<cache, served, breakerVars, callerVars, gridVars, poolVars, workerVars, trimVars, statsVars,
                   rankingVars, projVars, cityVars, mgrVars>>

\* getZxy rejects for tile t: the catch block of fetchTileBytes
FetchFailed(q, t) ==
    LET qr == qs[q]
    IN  /\ qr.status = "running"
        /\ qr.phase[t] = "fetch"
        /\ FetchRejected
        /\ qs' = [qs EXCEPT ![q] =
               TileWithoutCells([qr EXCEPT !.client[t] = null], t, "rejected")]
        /\ UNCHANGED <<PMTILES_URL, pmtiles, cache, served, callerVars, gridVars, poolVars, workerVars, trimVars, statsVars,
                   rankingVars, projVars, cityVars, mgrVars>>

\* getZxy resolves for tile t without data, or with bytes that fail to decode
FetchedNothing(q, t, outcome) ==
    LET qr == qs[q]
    IN  /\ qr.status = "running"
        /\ qr.phase[t] = "fetch"
        /\ FetchResolved
        /\ qs' = [qs EXCEPT ![q] =
               TileWithoutCells([qr EXCEPT !.client[t] = null], t, outcome)]
        /\ UNCHANGED <<PMTILES_URL, pmtiles, cache, served, callerVars, gridVars, poolVars, workerVars, trimVars, statsVars,
                   rankingVars, projVars, cityVars, mgrVars>>

\* getZxy resolves with a tile that decodes: its cells are rasterized and
\* cacheTileCells is awaited
FetchedTile(q, t) ==
    LET qr == qs[q]
    IN  /\ qr.status = "running"
        /\ qr.phase[t] = "fetch"
        /\ FetchResolved
        /\ qs' = [qs EXCEPT ![q] = [qr EXCEPT !.phase[t] = "put", !.client[t] = null]]
        /\ UNCHANGED <<PMTILES_URL, pmtiles, cache, served, callerVars, gridVars, poolVars, workerVars, trimVars, statsVars,
                   rankingVars, projVars, cityVars, mgrVars>>

\* cacheTileCells settles for tile t: the record is stored, or the store
\* threw and only a warning is logged; the cells join union either way
CachePutDone(q, t, putOk) ==
    LET qr == qs[q]
        tileCells == RoadCells(t, qr.cellSize)
    IN  /\ qr.status = "running"
        /\ qr.phase[t] = "put"
        /\ cache' = cacheTileCells(qr.zoom, t, TileRow, qr.cellSize, tileCells, putOk)
        /\ qs' = [qs EXCEPT ![q] =
               TileWithCells(qr, t, IF putOk THEN "stored" ELSE "unstored", tileCells)]
        /\ UNCHANGED <<served, breakerVars, callerVars, gridVars, poolVars, workerVars, trimVars, statsVars,
                   rankingVars, projVars, cityVars, mgrVars>>

ServedAfter(qr, k) ==
    IF \E t \in Tiles : /\ k = tileKey(qr.zoom, t, TileRow, qr.cellSize)
                        /\ qr.phase[t] = "stored"
    THEN "stored"
    ELSE IF /\ served[k] = "no"
            /\ \E t \in Tiles : /\ k = tileKey(qr.zoom, t, TileRow, qr.cellSize)
                                /\ qr.phase[t] = "unstored"
    THEN "decoded"
    ELSE served[k]

\* await Promise.all(workers) settles: every worker left its loop; the
\* union is filtered to the bbox and returned
ReturnRoadCells(q) ==
    LET qr == qs[q]
    IN  /\ qr.status = "running"
        /\ \A t \in Tiles : qr.phase[t] \notin ActivePhases \cup {"queued"}
        /\ qs' = [qs EXCEPT ![q] =
               [qr EXCEPT !.status = "returned",
                          !.result = filterToBbox(qr.union, qr.bbox[1], qr.bbox[2],
                                                  qr.cellSize)]]
        /\ served' = [k \in TileKeys |-> ServedAfter(qr, k)]
        /\ UNCHANGED <<cache, breakerVars, callerVars, gridVars, poolVars, workerVars, trimVars, statsVars,
                   rankingVars, projVars, cityVars, mgrVars>>

\* setRoadPMTilesURL(url) is called, possibly while queries are in flight
SetSource(url) ==
    /\ setRoadPMTilesURL(url)
    /\ UNCHANGED <<queryVars, callerVars, gridVars, poolVars, workerVars, trimVars, statsVars,
                   rankingVars, projVars, cityVars, mgrVars>>

QueryStep(q) ==
    \/ \E bbox \in Bboxes, cellSize \in CellSizes : CallGetRoadCells(q, bbox, cellSize)
    \/ \E t \in Tiles, readOk \in BOOLEAN : CacheReadDone(q, t, readOk)
    \/ \E t \in Tiles : FetchFailed(q, t)
    \/ \E t \in Tiles, outcome \in {"noData", "badTile"} : FetchedNothing(q, t, outcome)
    \/ \E t \in Tiles : FetchedTile(q, t)
    \/ \E t \in Tiles, putOk \in BOOLEAN : CachePutDone(q, t, putOk)
    \/ ReturnRoadCells(q)

\* one caller at a time
Next ==
    \/ QueryStep(1)
    \/ \E url \in SourceURLs : SetSource(url)

\* two callers of one configured source whose queries may overlap, with a
\* cache store that does not throw
OverlapStep(q) ==
    \/ \E bbox \in Bboxes, cellSize \in CellSizes : CallGetRoadCells(q, bbox, cellSize)
    \/ \E t \in Tiles : CacheReadDone(q, t, TRUE)
    \/ \E t \in Tiles : FetchFailed(q, t)
    \/ \E t \in Tiles, outcome \in {"noData", "badTile"} : FetchedNothing(q, t, outcome)
    \/ \E t \in Tiles : FetchedTile(q, t)
    \/ \E t \in Tiles : CachePutDone(q, t, TRUE)
    \/ ReturnRoadCells(q)

OverlapNext ==
    \/ \E q \in Slots : OverlapStep(q)
    \/ SetSource("a")

(***************************************************************************)
(* The worker pool of getRoadCellsForBbox over many tiles                  *)
(*                                                                         *)
(* The tile operations are counted, not told apart: what processTile does  *)
(* for one tile is modelled above.                                         *)
(***************************************************************************)
\* no getRoadCellsForBbox call yet
NoPool ==
    [pc |-> "idle", tiles |-> 0, workers |-> 0, queue |-> <<>>,
     started |-> <<>>, begun |-> 0, finished |-> 0, exited |-> 0]

PoolParked == pool = NoPool

\* Math.min(tiles.length, CONCURRENCY)
PoolSizeUnbounded(n) == n

PoolSize(n) == Min2(n, CONCURRENCY)

\* one turn of a worker: while (queue.length > 0) { tile = queue.shift();
\* await processTile(...) } up to the await, or the end of the worker
PoolWorkerLoopKeepsHead(p) ==
    IF Len(p.queue) > 0
    THEN [p EXCEPT !.started[Head(p.queue)] = @ + 1, !.begun = @ + 1]
    ELSE [p EXCEPT !.exited = @ + 1]

PoolWorkerLoop(p) ==
    IF Len(p.queue) > 0
    THEN [p EXCEPT !.started[Head(p.queue)] = @ + 1,
                   !.begun = @ + 1,
                   !.queue = Tail(p.queue)]
    ELSE [p EXCEPT !.exited = @ + 1]

\* Array(n).fill(null).map(async () => ...): each worker runs to its first
\* await before the next one starts
RECURSIVE PoolStartWorkers(_, _)
PoolStartWorkers(p, n) ==
    IF n = 0 THEN p ELSE PoolStartWorkers(PoolWorkerLoop(p), n - 1)

\* getRoadCellsForBbox is called with a bbox covered by n tiles
PoolCall(n) ==
    /\ pool.pc = "idle"
    /\ pool' = PoolStartWorkers(
                   [NoPool EXCEPT !.pc = "running", !.tiles = n,
                                  !.workers = PoolSize(n),
                                  !.queue = [i \in 1..n |-> i],
                                  !.started = [i \in 1..n |-> 0]],
                   PoolSize(n))
    /\ UNCHANGED <<gridVars, breakerVars, callerVars, queryVars, workerVars, trimVars, statsVars,
                   rankingVars, projVars, cityVars, mgrVars>>

\* one awaited processTile settles; its worker takes the next turn
PoolTileDone ==
    /\ pool.pc = "running"
    /\ pool.begun > pool.finished
    /\ pool' = PoolWorkerLoop([pool EXCEPT !.finished = @ + 1])
    /\ UNCHANGED <<gridVars, breakerVars, callerVars, queryVars, workerVars, trimVars, statsVars,
                   rankingVars, projVars, cityVars, mgrVars>>

\* await Promise.all(workers) settles once every worker has ended
PoolReturn ==
    /\ pool.pc = "running"
    /\ pool.exited = pool.workers
    /\ pool' = [pool EXCEPT !.pc = "returned"]
    /\ UNCHANGED <<gridVars, breakerVars, callerVars, queryVars, workerVars, trimVars, statsVars,
                   rankingVars, projVars, cityVars, mgrVars>>

PoolNext ==
    \/ \E n \in 0..MaxPoolTiles : PoolCall(n)
    \/ PoolTileDone
    \/ PoolReturn

(***************************************************************************)
(* The activity worker (worker/processor)                                  *)
(*                                                                         *)
(* Activities are told apart by id.  What polyline.decode, the privacy     *)
(* filter and samplePolyline yield for an activity is one planar point on  *)
(* the row y = 0.  Messages of the main thread carry the activities 1 .. n *)
(* and whole or partial configs.                                           *)
(***************************************************************************)
\* the values of config.cellSize the main thread sends
CellSizeChoices == {DefaultCellSize, 2 * DefaultCellSize}

\* the activity with a given id: every second one is private
Activity(id) == [id |-> id, private |-> id % 2 = 0, x |-> DefaultCellSize * id]

\* the cells marked for one activity: pointToCell and cellKey of its samples
CellsOfActivity(id, cellSize) ==
    {cellKey(pointToCell(Activity(id).x, cellSize), pointToCell(0, cellSize))}

\* let currentConfig = { cellSize: 25, ..., skipPrivate: false }
DefaultConfig == [cellSize |-> DefaultCellSize, skipPrivate |-> FALSE]

\* the worker's module state before any message; procRun and reproRun hold
\* the suspended processActivities and reprocessAllActivities calls, each
\* with its local array and loop index; sizesUsed is history: the cellSize
\* values with which cells were added since visitedCells was last cleared;
\* posted is the type of the last message the worker posted, received the
\* number of messages it was sent
FreshWorker ==
    [visitedCells |-> {}, processedActivityIds |-> {}, activityStore |-> <<>>,
     isReprocessing |-> FALSE, isProcessing |-> FALSE, pendingReprocess |-> FALSE,
     currentConfig |-> DefaultConfig,
     procRun |-> <<>>, reproRun |-> <<>>,
     sizesUsed |-> {}, posted |-> "none", received |-> 0]

\* a sequence without its i-th element
RemoveAt(s, i) == SubSeq(s, 1, i - 1) \o SubSeq(s, i + 1, Len(s))

WorkerInit == worker = FreshWorker

\* activityStore.set(activity.id, activity): a Map keeps insertion order
StoreSet(store, id) ==
    IF id \in SeqRange(store) THEN store ELSE Append(store, id)

\* the body of the for loop of processBatch for one activity
ProcessOne(w, id, config) ==
    LET stored == [w EXCEPT !.activityStore = StoreSet(@, id)]
    IN  IF id \in w.processedActivityIds THEN stored
        ELSE IF config.skipPrivate /\ Activity(id).private THEN stored
        ELSE [stored EXCEPT
                 !.visitedCells = @ \cup CellsOfActivity(id, config.cellSize),
                 !.sizesUsed = @ \cup {config.cellSize},
                 !.processedActivityIds = @ \cup {id}]

\* processBatch(activities, config): the loop over the activities, the state
\* after each activity (one) being computed once
RECURSIVE processBatch(_, _, _)
processBatch(w, activities, config) ==
    IF activities = <<>> THEN w
    ELSE CHOOSE done \in {processBatch(one, Tail(activities), config) :
                               one \in {ProcessOne(w, Head(activities), config)}} : TRUE

\* all.slice(i, i + batchSize), i counted from 0
Slice(all, i, batchSize) ==
    SubSeq(all, i + 1, Min2(i + batchSize, Len(all)))

\* reprocessAllActivities() up to its first await, or to its end when no
\* activity is stored
reprocessAllActivities(w) ==
    IF w.isReprocessing THEN w
    ELSE LET cleared == [w EXCEPT !.isReprocessing = TRUE,
                                  !.visitedCells = {},
                                  !.processedActivityIds = {},
                                  !.sizesUsed = {}]
             allActivities == w.activityStore
         IN  IF Len(allActivities) = 0
             THEN [cleared EXCEPT !.isReprocessing = FALSE, !.posted = "complete"]
             ELSE [processBatch(cleared, Slice(allActivities, 0, BatchSize),
                                cleared.currentConfig)
                      EXCEPT !.reproRun = Append(@, [all |-> allActivities, i |-> BatchSize]),
                             !.posted = "rectangles"]

\* the end of processActivities: "complete" is posted, the flag is cleared
\* and a queued reprocess is started
FinishProcessing(w) ==
    LET done == [w EXCEPT !.isProcessing = FALSE, !.posted = "complete"]
    IN  IF done.pendingReprocess /\ ~done.isReprocessing
        THEN reprocessAllActivities([done EXCEPT !.pendingReprocess = FALSE])
        ELSE done

\* activities.filter((a) => !processedActivityIds.has(a.id))
RECURSIVE FilterUnprocessed(_, _)
FilterUnprocessed(activities, processed) ==
    IF activities = <<>> THEN <<>>
    ELSE IF Head(activities) \in processed
         THEN FilterUnprocessed(Tail(activities), processed)
         ELSE <<Head(activities)>> \o FilterUnprocessed(Tail(activities), processed)

\* { ...currentConfig, ...config }
MergeConfig(current, config) ==
    [k \in DOMAIN current |-> IF k \in DOMAIN config THEN config[k] ELSE current[k]]

\* needsReprocess of updateConfig
NeedsReprocess(config) ==
    "cellSize" \in DOMAIN config \/ "skipPrivate" \in DOMAIN config

\* the configs of updateConfig messages
ConfigUpdates ==
    {[cellSize |-> c] : c \in CellSizeChoices} \cup
    {[skipPrivate |-> b] : b \in BOOLEAN} \cup
    {[cellSize |-> c, skipPrivate |-> b] : c \in CellSizeChoices, b \in BOOLEAN}

\* the sizes of the activity lists the main thread sends: a private and a
\* public activity, or all of them
ActivityCounts == {2, MaxActivities}

\* for (const act of data.activities) activityStore.set(act.id, act)
RECURSIVE StoreAll(_, _)
StoreAll(store, activities) ==
    IF activities = <<>> THEN store
    ELSE StoreAll(StoreSet(store, Head(activities)), Tail(activities))

\* message "init" with data.activities = 1 .. n
Initialize(n) ==
    /\ worker.received < MaxMessages
    /\ worker' = [worker EXCEPT !.activityStore = StoreAll(@, [i \in 1..n |-> i]),
                                !.posted = "progress",
                                !.received = @ + 1]
    /\ UNCHANGED <<gridVars, breakerVars, callerVars, queryVars, poolVars, trimVars, statsVars,
                   rankingVars, projVars, cityVars, mgrVars>>

\* if (isReprocessing) of processActivities
RefusesProcess(w) == w.isReprocessing

\* message "process" with data.activities = 1 .. n: refused with an error
\* while a reprocess runs, else up to the first await, or to the end when
\* nothing is left to process
ProcessActivities(n) ==
    LET activities == [i \in 1..n |-> i]
        toProcess == FilterUnprocessed(activities, worker.processedActivityIds)
        got == [worker EXCEPT !.received = @ + 1]
        marked == [got EXCEPT !.isProcessing = TRUE]
    IN  /\ worker.received < MaxMessages
        /\ worker' =
               IF RefusesProcess(worker)
               THEN [got EXCEPT !.posted = "error"]
               ELSE IF Len(toProcess) = 0
               THEN FinishProcessing(marked)
               ELSE [processBatch(marked, Slice(toProcess, 0, BatchSize),
                                  marked.currentConfig)
                        EXCEPT !.procRun = Append(@, [toProcess |-> toProcess, i |-> BatchSize]),
                               !.posted = "rectangles"]
        /\ UNCHANGED <<gridVars, breakerVars, callerVars, queryVars, poolVars, trimVars, statsVars,
                   rankingVars, projVars, cityVars, mgrVars>>

\* the timer awaited by a processActivities call fires: the next batch, or
\* the end
ProcessContinue ==
    /\ \E r \in 1..Len(worker.procRun) :
           LET run == worker.procRun[r]
           IN  worker' =
                   IF run.i < Len(run.toProcess)
                   THEN [processBatch(worker, Slice(run.toProcess, run.i, BatchSize),
                                      worker.currentConfig)
                            EXCEPT !.procRun[r] = [run EXCEPT !.i = @ + BatchSize],
                                   !.posted = "rectangles"]
                   ELSE FinishProcessing([worker EXCEPT !.procRun = RemoveAt(@, r)])
    /\ UNCHANGED <<gridVars, breakerVars, callerVars, queryVars, poolVars, trimVars, statsVars,
                   rankingVars, projVars, cityVars, mgrVars>>

\* the timer awaited by a reprocessAllActivities call fires: the next batch,
\* or the end
ReprocessContinue ==
    /\ \E r \in 1..Len(worker.reproRun) :
           LET run == worker.reproRun[r]
           IN  worker' =
                   IF run.i < Len(run.all)
                   THEN [processBatch(worker, Slice(run.all, run.i, BatchSize),
                                      worker.currentConfig)
                            EXCEPT !.reproRun[r] = [run EXCEPT !.i = @ + BatchSize],
                                   !.posted = "rectangles"]
                   ELSE [worker EXCEPT !.isReprocessing = FALSE,
                                       !.reproRun = RemoveAt(@, r),
                                       !.posted = "complete"]
    /\ UNCHANGED <<gridVars, breakerVars, callerVars, queryVars, poolVars, trimVars, statsVars,
                   rankingVars, projVars, cityVars, mgrVars>>

\* message "updateConfig"
updateConfig(config) ==
    LET merged == [worker EXCEPT !.currentConfig = MergeConfig(@, config),
                                 !.posted = "progress",
                                 !.received = @ + 1]
    IN  /\ worker.received < MaxMessages
        /\ worker' =
               IF ~NeedsReprocess(config) THEN merged
               ELSE IF Len(merged.activityStore) = 0 THEN merged
               ELSE IF merged.isProcessing
                    THEN [merged EXCEPT !.pendingReprocess = TRUE]
                    ELSE reprocessAllActivities(merged)
        /\ UNCHANGED <<gridVars, breakerVars, callerVars, queryVars, poolVars, trimVars, statsVars,
                   rankingVars, projVars, cityVars, mgrVars>>

\* message "clear": the collections and the flags are reset; the suspended
\* calls stay suspended
clear ==
    /\ worker.received < MaxMessages
    /\ worker' = [FreshWorker EXCEPT !.currentConfig = worker.currentConfig,
                                     !.procRun = worker.procRun,
                                     !.reproRun = worker.reproRun,
                                     !.posted = "complete",
                                     !.received = worker.received + 1]
    /\ UNCHANGED <<gridVars, breakerVars, callerVars, queryVars, poolVars, trimVars, statsVars,
                   rankingVars, projVars, cityVars, mgrVars>>

\* the main thread waits for the worker: it sends "process" while no call
\* of processActivities is suspended and no reprocess runs, and "clear"
\* while no call at all is suspended
WorkerNext ==
    \/ \E n \in ActivityCounts : Initialize(n)
    \/ \E n \in ActivityCounts :
           /\ worker.procRun = <<>>
           /\ ~worker.isReprocessing
           /\ ProcessActivities(n)
    \/ ProcessContinue
    \/ ReprocessContinue
    \/ \E config \in ConfigUpdates : updateConfig(config)
    \/ /\ worker.procRun = <<>>
       /\ worker.reproRun = <<>>
       /\ clear

\* the main thread does not wait: any message at any time
BusyNext ==
    \/ \E n \in ActivityCounts : Initialize(n)
    \/ \E n \in ActivityCounts : ProcessActivities(n)
    \/ ProcessContinue
    \/ ReprocessContinue
    \/ \E config \in ConfigUpdates : updateConfig(config)
    \/ clear

(***************************************************************************)
(* The privacy trim (lib/projection: trimPolylineByDistance)               *)
(*                                                                         *)
(* A polyline runs along one meridian: a point is its position in metres,  *)
(* and haversineDistance of two points is the distance between them.       *)
(* Indices are the code's: counted from 0.                                 *)
(***************************************************************************)
Abs(a) == IF a < 0 THEN 0 - a ELSE a

haversineDistance(p1, p2) == Abs(p2 - p1)

\* lat1 + (lat2 - lat1) * (num / den)
Interpolate(p1, p2, num, den) == p1 + ((p2 - p1) * num) \div den

\* the element at index k of an array
At(arr, k) == arr[k + 1]

\* the loop that trims the start, from index i on: <<startPoint>> and
\* startCutIndex, or <<>> when the loop ends without a cut
RECURSIVE TrimStartLoop(_, _, _, _)
TrimStartLoop(points, distanceMeters, i, accumulated) ==
    IF ~(i < Len(points)) THEN [startPoint |-> <<>>, startCutIndex |-> 0 - 1]
    ELSE LET segDist == haversineDistance(At(points, i - 1), At(points, i))
             needed == distanceMeters - accumulated
         IN  IF accumulated + segDist >= distanceMeters
             THEN IF needed <= 0 \/ needed >= segDist
                  THEN [startPoint |-> <<At(points, i)>>, startCutIndex |-> i + 1]
                  ELSE [startPoint |->
                            <<Interpolate(At(points, i - 1), At(points, i),
                                          needed, segDist)>>,
                        startCutIndex |-> i]
             ELSE TrimStartLoop(points, distanceMeters, i + 1, accumulated + segDist)

\* the loop that trims the end, from index i down: <<endPoint>> and
\* endCutIndex, or <<>> when the loop ends without a cut
RECURSIVE TrimEndLoop(_, _, _, _)
TrimEndLoop(filtered, distanceMeters, i, accumulatedEnd) ==
    IF ~(i > 0) THEN [endPoint |-> <<>>, endCutIndex |-> 0 - 1]
    ELSE LET segDist == haversineDistance(At(filtered, i - 1), At(filtered, i))
             needed == distanceMeters - accumulatedEnd
         IN  IF accumulatedEnd + segDist >= distanceMeters
             THEN IF needed <= 0 \/ needed >= segDist
                  THEN [endPoint |-> <<At(filtered, i - 1)>>, endCutIndex |-> i - 1]
                  ELSE [endPoint |->
                            <<Interpolate(At(filtered, i - 1), At(filtered, i),
                                          segDist - needed, segDist)>>,
                        endCutIndex |-> i - 1]
             ELSE TrimEndLoop(filtered, distanceMeters, i - 1, accumulatedEnd + segDist)

trimPolylineByDistance(points, distanceMeters) ==
    IF distanceMeters <= 0 \/ Len(points) < 3 THEN points
    ELSE LET start == TrimStartLoop(points, distanceMeters, 1, 0)
             filtered == start.startPoint \o
                             SubSeq(points, start.startCutIndex + 1, Len(points))
             end == TrimEndLoop(filtered, distanceMeters, Len(filtered) - 1, 0)
             result == SubSeq(filtered, 1, end.endCutIndex + 1) \o end.endPoint
         IN  IF start.startPoint = <<>> THEN <<>>
             ELSE IF Len(filtered) < 2 THEN <<>>
             ELSE IF end.endPoint = <<>> THEN filtered
             ELSE IF Len(result) >= 2 THEN result ELSE <<>>

\* applyPrivacyFilter(points, config)
applyPrivacyFilter(points, config) ==
    trimPolylineByDistance(points, config.privacyDistance)

\* the polylines and privacy distances of the trim specification
Polylines == UNION {[1..n -> 0..MaxCoord] : n \in 0..MaxPoints}

PrivacyDistances == 0..MaxTrim

NoTrim == [pc |-> "idle", points |-> <<>>, distanceMeters |-> 0, result |-> <<>>]

TrimParked == trim = NoTrim

TrimInit ==
    trim \in {[NoTrim EXCEPT !.pc = "input", !.points = p, !.distanceMeters = d] :
                 p \in Polylines, d \in PrivacyDistances}

\* const filteredPoints = applyPrivacyFilter(points, config)
TrimCall ==
    /\ trim.pc = "input"
    /\ trim' = [trim EXCEPT
                   !.pc = "done",
                   !.result = applyPrivacyFilter(
                                  trim.points,
                                  [privacyDistance |-> trim.distanceMeters])]
    /\ UNCHANGED <<gridVars, breakerVars, callerVars, queryVars, poolVars,
                   workerVars, statsVars,
                   rankingVars, projVars, cityVars, mgrVars>>

TrimNext == TrimCall

(***************************************************************************)
(* Coverage statistics (lib/stats: computeVisitedCountForCells)            *)
(***************************************************************************)
\* the offsets (dx, dy) of the two nested loops, (0, 0) skipped
NeighbourOffsetsNoDiagonal ==
    {o \in (0 - 1..1) \X (0 - 1..1) : (o[1] = 0) # (o[2] = 0)}

NeighbourOffsets ==
    {o \in (0 - 1..1) \X (0 - 1..1) : ~(o[1] = 0 /\ o[2] = 0)}

\* found: some cellKey(x + dx, y + dy) is in visitedCells
FoundNear(cell, visitedCells) ==
    LET c == parseCellKey(cell)
    IN  \E o \in NeighbourOffsets : cellKey(c.x + o[1], c.y + o[2]) \in visitedCells

\* the for loop over targetCells, with the cells not yet seen
RECURSIVE VisitedLoop(_, _, _)
VisitedLoop(remaining, visitedCells, visited) ==
    IF remaining = {} THEN visited
    ELSE LET cell == CHOOSE c \in remaining : TRUE
         IN  VisitedLoop(remaining \ {cell}, visitedCells,
                         IF cell \in visitedCells THEN visited + 1
                         ELSE IF FoundNear(cell, visitedCells) THEN visited + 1
                         ELSE visited)

computeVisitedCountForCells(targetCells, visitedCells) ==
    IF Cardinality(targetCells) = 0 THEN 0
    ELSE VisitedLoop(targetCells, visitedCells, 0)

\* a / b as an exact fraction; a zero denominator stands for NaN (0 / 0)
Ratio(a, b) == [num |-> a, den |-> b]

\* r * k
Scaled(r, k) == [num |-> r.num * k, den |-> r.den]

\* r1 >= r2, for fractions with positive denominators
RatioGeq(r1, r2) == r1.num * r2.den >= r2.num * r1.den

computeVisitedPercentageForCellsUnguarded(targetCells, visitedCells) ==
    Scaled(Ratio(computeVisitedCountForCells(targetCells, visitedCells),
                 Cardinality(targetCells)), 100)

computeVisitedPercentageForCells(targetCells, visitedCells) ==
    LET visited == computeVisitedCountForCells(targetCells, visitedCells)
    IN  IF Cardinality(targetCells) = 0
        THEN Ratio(0, 1)
        ELSE Scaled(Ratio(visited, Cardinality(targetCells)), 100)

\* the cells of the statistics specification
StatXs == GridLo..(GridLo + StatW - 1)
StatYs == GridLo..(GridLo + StatH - 1)
StatKeys == {cellKey(x, y) : x \in StatXs, y \in StatYs}

NoStats ==
    [pc |-> "idle", targetCells |-> {}, visitedCells |-> {}, visitedCount |-> 0,
     visitedPercentage |-> Ratio(0, 1)]

StatsParked == stats = NoStats

StatsInit ==
    stats \in {[NoStats EXCEPT !.pc = "input", !.targetCells = t, !.visitedCells = v] :
                  t \in {S \in SUBSET StatKeys : Cardinality(S) <= MaxTargetCells},
                  v \in {S \in SUBSET StatKeys : Cardinality(S) <= MaxVisitedCells}}

\* a consumer computes both metrics of one target:
\* computeVisitedCountForCells(city.roadCells, visitedCells) and
\* computeVisitedPercentageForCells(roadCells, this.visitedCells)
StatsCall ==
    /\ stats.pc = "input"
    /\ stats' = [stats EXCEPT
                    !.pc = "done",
                    !.visitedCount =
                        computeVisitedCountForCells(stats.targetCells, stats.visitedCells),
                    !.visitedPercentage =
                        computeVisitedPercentageForCells(stats.targetCells,
                                                         stats.visitedCells)]
    /\ UNCHANGED <<gridVars, breakerVars, callerVars, queryVars, poolVars,
                   workerVars, trimVars, rankingVars, projVars, cityVars, mgrVars>>

StatsNext == StatsCall

(***************************************************************************)
(* City statistics (lib/stats: computeCityStats; CityManager.getStats).     *)
(* A city's roadCells is <<>> for null and <<S>> for the Set S.            *)
(***************************************************************************)
TopCities == 20

RatioEq(r1, r2) == r1.num * r2.den = r2.num * r1.den

City(id, roadCells) == [id |-> id, roadCells |-> roadCells]

\* the entry pushed for a city with a non-empty road set
CityStatsEntry(city, visitedCells) ==
    LET roadCells == city.roadCells[1]
        visitedCount == computeVisitedCountForCells(roadCells, visitedCells)
    IN  [cityId |-> city.id,
         totalCells |-> Cardinality(roadCells),
         visitedCount |-> visitedCount,
         percentage |-> IF Cardinality(roadCells) = 0
                        THEN Ratio(0, 1)
                        ELSE Scaled(Ratio(visitedCount, Cardinality(roadCells)), 100)]

\* for (const city of cities): the entries pushed from city i on
RECURSIVE CollectStats(_, _, _)
CollectStats(cities, visitedCells, i) ==
    IF i > Len(cities) THEN <<>>
    ELSE LET city == cities[i]
             rest == CollectStats(cities, visitedCells, i + 1)
         IN  IF city.roadCells = <<>> THEN rest
             ELSE IF Cardinality(city.roadCells[1]) > 0
                  THEN <<CityStatsEntry(city, visitedCells)>> \o rest
                  ELSE rest

\* the stable sort places e behind every entry that does not compare
\* after it: (a, b) => b.percentage - a.percentage
InsertByPercentage(sorted, e) ==
    LET k == Cardinality({i \in 1..Len(sorted) :
                              RatioGeq(sorted[i].percentage, e.percentage)})
    IN  SubSeq(sorted, 1, k) \o <<e>> \o SubSeq(sorted, k + 1, Len(sorted))

RECURSIVE SortByPercentage(_)
SortByPercentage(entries) ==
    IF entries = <<>> THEN <<>>
    ELSE InsertByPercentage(SortByPercentage(SubSeq(entries, 1, Len(entries) - 1)),
                            entries[Len(entries)])

\* .slice(0, n)
SliceTop(entries, n) == SubSeq(entries, 1, Min2(Len(entries), n))

computeCityStatsSliceFirst(cities, visitedCells) ==
    SortByPercentage(SliceTop(CollectStats(cities, visitedCells, 1), TopCities))

computeCityStats(cities, visitedCells) ==
    SliceTop(SortByPercentage(CollectStats(cities, visitedCells, 1)), TopCities)

\* CityManager.getStats on the manager state m
getStats(m) ==
    IF m.isProcessing
    THEN <<[cityId |-> "processing",
            totalCells |-> m.discoveryTotal,
            visitedCount |-> m.discoveryProcessed,
            percentage |-> IF m.discoveryTotal > 0
                           THEN Scaled(Ratio(m.discoveryProcessed, m.discoveryTotal), 100)
                           ELSE Ratio(0, 1)]>>
    ELSE computeCityStats(m.cities, m.visitedCells)

\* road sets of the cities: with the visited cell (-1,-1), RoadNear is
\* fully visited, RoadFar not at all and RoadBoth by half
RoadNear == {cellKey(0 - 1, 0)}
RoadFar == {cellKey(1, 0)}
RoadBoth == RoadNear \cup RoadFar
RoadSets == <<RoadNear, RoadFar, RoadBoth>>
FirstRoadCells == {<<>>, <<{}>>, <<RoadNear>>, <<RoadFar>>}
RankingVisited == {{}, {cellKey(0 - 1, 0 - 1)}}

\* n cities: the first with the given roadCells, the others cycling through
\* the non-empty road sets
CitiesOf(n, first, offset) ==
    [i \in 1..n |-> City(i, IF i = 1 THEN first
                            ELSE <<RoadSets[((i + offset) % 3) + 1]>>)]

NoRanking ==
    [pc |-> "idle", cities |-> <<>>, visitedCells |-> {}, isProcessing |-> FALSE,
     discoveryTotal |-> 0, discoveryProcessed |-> 0, result |-> <<>>]

RankingParked == ranking = NoRanking

RankingInit ==
    ranking \in
        {[NoRanking EXCEPT !.pc = "input", !.cities = CitiesOf(n, first, offset),
                           !.visitedCells = v] :
            n \in 0..MaxCities, first \in FirstRoadCells, offset \in 0..2,
            v \in RankingVisited}
        \cup
        {[NoRanking EXCEPT !.pc = "input", !.cities = CitiesOf(2, first, 0),
                           !.isProcessing = TRUE, !.discoveryTotal = total,
                           !.discoveryProcessed = processed] :
            first \in FirstRoadCells, total \in {0, 2}, processed \in {0, 1}}

GetStats ==
    /\ ranking.pc = "input"
    /\ ranking' = [ranking EXCEPT !.pc = "done", !.result = getStats(ranking)]
    /\ UNCHANGED <<gridVars, breakerVars, callerVars, queryVars, poolVars, workerVars,
                   trimVars, statsVars, projVars, cityVars, mgrVars>>

RankingNext == GetStats

(***************************************************************************)
(* Projection functions called one at a time: cellKey / parseCellKey,      *)
(* pointToCell and rasterizeLineToRoadCells. Planar points are in whole    *)
(* metres; the sample points of a segment are exact fractions.             *)
(***************************************************************************)
\* Math.ceil(dist / (cellSize / 2)) with dist = Math.sqrt(distSq): the
\* least n with n * cellSize / 2 >= dist
RECURSIVE CeilOfQuotient(_, _, _)
CeilOfQuotient(distSq, cellSize, n) ==
    IF n * n * cellSize * cellSize >= 4 * distSq THEN n
    ELSE CeilOfQuotient(distSq, cellSize, n + 1)

rasterStepsWholeCell(dx, dy, cellSize) ==
    CeilOfQuotient(dx * dx + dy * dy, 2 * cellSize, 0)

\* const steps = Math.ceil(dist / (cellSize / 2))
rasterSteps(dx, dy, cellSize) == CeilOfQuotient(dx * dx + dy * dy, cellSize, 0)

\* the point sampled at step s: p1 + d * t with t = steps === 0 ? 0 : s / steps,
\* both coordinates over the denominator den
SamplePoint(p1, p2, steps, s) ==
    LET t == IF steps = 0 THEN Ratio(0, 1) ELSE Ratio(s, steps)
    IN  [x |-> p1.x * t.den + (p2.x - p1.x) * t.num,
         y |-> p1.y * t.den + (p2.y - p1.y) * t.num,
         den |-> t.den]

\* the points sampled by the loop for (let s = 0; s <= steps; s++)
Samples(p1, p2, cellSize) ==
    LET steps == rasterSteps(p2.x - p1.x, p2.y - p1.y, cellSize)
    IN  [k \in 1..(steps + 1) |-> SamplePoint(p1, p2, steps, k - 1)]

\* pointToCell of a sampled point: Math.floor((num / den) / cellSize)
SampleCell(pt, cellSize) ==
    [x |-> pointToCell(pt.x, pt.den * cellSize),
     y |-> pointToCell(pt.y, pt.den * cellSize)]

\* rasterizeLineToRoadCells on the planar end points p1, p2
rasterizeLineToRoadCells(p1, p2, cellSize) ==
    LET samples == Samples(p1, p2, cellSize)
    IN  {cellKey(SampleCell(samples[k], cellSize).x, SampleCell(samples[k], cellSize).y) :
            k \in 1..Len(samples)}

\* the strings of up to n characters over the alphabet
RECURSIVE StringsUpTo(_, _)
StringsUpTo(alphabet, n) ==
    IF n = 0 THEN {<<>>}
    ELSE LET shorter == StringsUpTo(alphabet, n - 1)
         IN  shorter \cup {Append(w, c) : w \in shorter, c \in alphabet}

KeyAlphabet == {"0", "1", "-", ",", "a"}
CellRange == (0 - MaxCell)..MaxCell
PlanarRange == (0 - MaxPlanar)..MaxPlanar
SegmentRange == (0 - MaxSegment)..MaxSegment
ProjCellSizes == 1..MaxCellSize

NoProj == [op |-> "none", pc |-> "idle", arg |-> <<>>, result |-> <<>>, aux |-> <<>>]

ProjParked == proj = NoProj

ProjInit ==
    \/ proj \in {[NoProj EXCEPT !.op = "key", !.pc = "input", !.arg = [x |-> x, y |-> y]] :
                    x \in CellRange, y \in CellRange}
    \/ proj \in {[NoProj EXCEPT !.op = "parse", !.pc = "input", !.arg = key] :
                    key \in StringsUpTo(KeyAlphabet, MaxKeyLen)}
    \/ proj \in {[NoProj EXCEPT !.op = "cell", !.pc = "input",
                                !.arg = [x |-> x, y |-> y, cellSize |-> c]] :
                    x \in PlanarRange, y \in PlanarRange, c \in ProjCellSizes}
    \/ proj \in {[NoProj EXCEPT !.op = "raster", !.pc = "input",
                                !.arg = [p1 |-> [x |-> x1, y |-> y1],
                                         p2 |-> [x |-> x2, y |-> y2],
                                         cellSize |-> c]] :
                    x1 \in SegmentRange, y1 \in SegmentRange,
                    x2 \in SegmentRange, y2 \in SegmentRange, c \in ProjCellSizes}

\* parseCellKey(cellKey(x, y)); aux keeps the key
RoundTrip ==
    /\ proj.op = "key" /\ proj.pc = "input"
    /\ proj' = [proj EXCEPT !.pc = "done",
                            !.aux = cellKey(proj.arg.x, proj.arg.y),
                            !.result = parseCellKey(cellKey(proj.arg.x, proj.arg.y))]
    /\ UNCHANGED <<gridVars, breakerVars, callerVars, queryVars, poolVars, workerVars,
                   trimVars, statsVars, rankingVars, cityVars, mgrVars>>

\* parseCellKey(key) on any string: it has no throwing path and returns
ParseKey ==
    /\ proj.op = "parse" /\ proj.pc = "input"
    /\ proj' = [proj EXCEPT !.pc = "done",
                            !.aux = "returned",
                            !.result = parseCellKey(proj.arg)]
    /\ UNCHANGED <<gridVars, breakerVars, callerVars, queryVars, poolVars, workerVars,
                   trimVars, statsVars, rankingVars, cityVars, mgrVars>>

\* pointToCell(x, y, cellSize)
PointToCell ==
    /\ proj.op = "cell" /\ proj.pc = "input"
    /\ proj' = [proj EXCEPT !.pc = "done",
                            !.result = [x |-> pointToCell(proj.arg.x, proj.arg.cellSize),
                                        y |-> pointToCell(proj.arg.y, proj.arg.cellSize)]]
    /\ UNCHANGED <<gridVars, breakerVars, callerVars, queryVars, poolVars, workerVars,
                   trimVars, statsVars, rankingVars, cityVars, mgrVars>>

\* rasterizeLineToRoadCells; aux keeps steps and the sampled points
Rasterize ==
    /\ proj.op = "raster" /\ proj.pc = "input"
    /\ proj' = [proj EXCEPT
                   !.pc = "done",
                   !.aux = [steps |-> rasterSteps(proj.arg.p2.x - proj.arg.p1.x,
                                                  proj.arg.p2.y - proj.arg.p1.y,
                                                  proj.arg.cellSize),
                            samples |-> Samples(proj.arg.p1, proj.arg.p2,
                                                proj.arg.cellSize)],
                   !.result = rasterizeLineToRoadCells(proj.arg.p1, proj.arg.p2,
                                                       proj.arg.cellSize)]
    /\ UNCHANGED <<gridVars, breakerVars, callerVars, queryVars, poolVars, workerVars,
                   trimVars, statsVars, rankingVars, cityVars, mgrVars>>

ProjNext ==
    \/ RoundTrip
    \/ ParseKey
    \/ PointToCell
    \/ Rasterize

(***************************************************************************)
(* Road cells of the discovered cities (CityManager: createCity,          *)
(* processRoadCellQueue, computeRoadCellsForCity; getPMTilesFilename).     *)
(* A city holds its country and region ("" for none), the bbox of its grid *)
(* cells (<<>> when it has no grid cells, else <<bbox>>) and its roadCells *)
(* (<<>> for null, else <<cells>>). The query of a city runs in slot 1.    *)
(***************************************************************************)
\* the entries of MAPPING the model uses: default is <<>> or <<filename>>,
\* regions the set of <<region, filename>> pairs
MAPPING ==
    ("United States" :>
         [default |-> <<>>, regions |-> {<<"California", "california.pmtiles">>}])
    @@ ("Monaco" :> [default |-> <<"monaco.pmtiles">>, regions |-> {}])

getPMTilesFilenameAnyRegion(country, region) ==
    IF country = "" \/ country \notin DOMAIN MAPPING THEN <<>>
    ELSE LET countryEntry == MAPPING[country]
         IN  IF countryEntry.regions # {}
             THEN <<(CHOOSE r \in countryEntry.regions : TRUE)[2]>>
             ELSE countryEntry.default

\* getPMTilesFilename(country, region): <<>> for null, else <<filename>>
getPMTilesFilename(country, region) ==
    IF country = "" THEN <<>>
    ELSE IF country \notin DOMAIN MAPPING THEN <<>>
    ELSE LET countryEntry == MAPPING[country]
         IN  IF region # "" /\ \E r \in countryEntry.regions : r[1] = region
             THEN <<(CHOOSE r \in countryEntry.regions : r[1] = region)[2]>>
             ELSE countryEntry.default

\* the bbox of a city's grid cells: the second half of tile 0
CityBbox == <<TileHalf, TileSpan - 1>>

\* the cities createCity is called with
CityInputs ==
    {[country |-> "United States", region |-> "California", bbox |-> <<CityBbox>>],
     [country |-> "United States", region |-> "Texas", bbox |-> <<CityBbox>>],
     [country |-> "Monaco", region |-> "", bbox |-> <<CityBbox>>],
     [country |-> "Monaco", region |-> "", bbox |-> <<>>],
     [country |-> "Atlantis", region |-> "", bbox |-> <<CityBbox>>]}

\* new CityManager(): no city, nothing queued (computed is history: the
\* cities whose computeRoadCellsForCity has completed)
NoCities ==
    [cities |-> <<>>, roadCellQueue |-> <<>>, isProcessingRoadCells |-> FALSE,
     pc |-> "idle", current |-> 0, computed |-> {}]

CityParked == cityq = NoCities

\* the while loop of processRoadCellQueue with an exit that leaves the flag
\* set
RoadCellLoopKeepsFlag(m) ==
    IF Len(m.roadCellQueue) > 0
    THEN [m EXCEPT !.current = Head(m.roadCellQueue),
                   !.roadCellQueue = Tail(m.roadCellQueue),
                   !.pc = "timer"]
    ELSE [m EXCEPT !.current = 0, !.pc = "idle"]

\* processRoadCellQueue: the while loop up to await setTimeout, or its exit
RoadCellLoop(m) ==
    IF Len(m.roadCellQueue) > 0
    THEN [m EXCEPT !.current = Head(m.roadCellQueue),
                   !.roadCellQueue = Tail(m.roadCellQueue),
                   !.pc = "timer"]
    ELSE [m EXCEPT !.isProcessingRoadCells = FALSE, !.current = 0, !.pc = "idle"]

\* processRoadCellQueue() without the test of isProcessingRoadCells
processRoadCellQueueReentrant(m) ==
    IF Len(m.roadCellQueue) = 0 THEN m
    ELSE RoadCellLoop([m EXCEPT !.isProcessingRoadCells = TRUE])

\* processRoadCellQueue()
processRoadCellQueue(m) ==
    IF m.isProcessingRoadCells \/ Len(m.roadCellQueue) = 0 THEN m
    ELSE RoadCellLoop([m EXCEPT !.isProcessingRoadCells = TRUE])

\* computeRoadCellsForCity completed for the current city; the loop goes on
ComputeCompleted(m) == RoadCellLoop([m EXCEPT !.computed = @ \cup {m.current}])

\* createCity: the city is stored with roadCells null and queued
AddCity(input) ==
    /\ Len(cityq.cities) < MaxQueuedCities
    /\ cityq' = processRoadCellQueue(
           [cityq EXCEPT
               !.cities = Append(@, [country |-> input.country,
                                     region |-> input.region,
                                     bbox |-> input.bbox,
                                     roadCells |-> <<>>]),
               !.roadCellQueue = Append(@, Len(cityq.cities) + 1)])
    /\ UNCHANGED <<gridVars, breakerVars, callerVars, queryVars, poolVars, workerVars,
                   trimVars, statsVars, rankingVars, projVars, mgrVars>>

\* the 50 ms timer fires: computeRoadCellsForCity(city) runs until it
\* returns or awaits getRoadCellsForBbox
TimerFired ==
    /\ cityq.pc = "timer"
    /\ LET city == cityq.cities[cityq.current]
           pmtilesFile == getPMTilesFilename(city.country, city.region)
       IN  IF pmtilesFile = <<>>
           THEN /\ cityq' = ComputeCompleted(cityq)
                /\ UNCHANGED <<breakerVars, queryVars>>
           ELSE /\ setRoadPMTilesURL(pmtilesFile[1])
                /\ IF city.bbox = <<>>
                   THEN /\ cityq' = ComputeCompleted(cityq)
                        /\ UNCHANGED queryVars
                   ELSE /\ cityq' = [cityq EXCEPT !.pc = "query"]
                        /\ qs' = [qs EXCEPT ![1] = StartedQuery(city.bbox[1], TileHalf)]
                        /\ UNCHANGED <<cache, served>>
    /\ UNCHANGED <<gridVars, callerVars, poolVars, workerVars, trimVars, statsVars,
                   rankingVars, projVars, mgrVars>>

\* getRoadCellsForBbox has returned: city.roadCells = roadCells
RoadCellsComputed ==
    /\ cityq.pc = "query"
    /\ qs[1].status = "returned"
    /\ cityq' = ComputeCompleted(
           [cityq EXCEPT !.cities[cityq.current].roadCells = <<qs[1].result>>])
    /\ UNCHANGED <<gridVars, breakerVars, callerVars, queryVars, poolVars, workerVars,
                   trimVars, statsVars, rankingVars, projVars, mgrVars>>

CityNext ==
    \/ \E input \in CityInputs : AddCity(input)
    \/ TimerFired
    \/ RoadCellsComputed
    \/ \E t \in Tiles, readOk \in BOOLEAN : CacheReadDone(1, t, readOk)
    \/ \E t \in Tiles : FetchFailed(1, t)
    \/ \E t \in Tiles, outcome \in {"noData", "badTile"} : FetchedNothing(1, t, outcome)
    \/ \E t \in Tiles : FetchedTile(1, t)
    \/ \E t \in Tiles, putOk \in BOOLEAN : CachePutDone(1, t, putOk)
    \/ ReturnRoadCells(1)

(***************************************************************************)
(* The city manager and its worker (geocoding/city-manager and             *)
(* worker/city-processor)                                                  *)
(*                                                                         *)
(* A promise is told apart by the number of the call that returned it, a   *)
(* viewport by a number.  Every message of the worker carries, as history, *)
(* the number of the call whose request it answers (from); the messages of *)
(* the code carry no such number.  The two message ports deliver in order. *)
(***************************************************************************)
\* the percentage of visited road cells of a viewport that has road cells
\* and visited cells: not zero, and another one for another viewport
ViewportPercentage(bounds) == 10 * bounds

\* a promise as new Promise((resolve) => ...) creates it; calls counts the
\* calls of its resolve function, value and from are those of the first
NewPromise(bounds) == [bounds |-> bounds, calls |-> 0, value |-> 0, from |-> 0]

\* resolve(value): only the first call settles the promise
Resolve(promise, value, from) ==
    IF promise.calls = 0
    THEN [promise EXCEPT !.calls = 1, !.value = value, !.from = from]
    ELSE [promise EXCEPT !.calls = @ + 1]

\* new CityManager(visitedCells, cellSize) and the CityProcessor of its
\* worker: no resolver is stored, nothing is in flight
NoManager ==
    [viewportStatsResolve |-> 0, discoveryPromiseResolve |-> 0,
     viewport |-> <<>>, discovery |-> <<>>,
     toWorker |-> <<>>, toMain |-> <<>>,
     isProcessing |-> FALSE, discovering |-> 0, computing |-> {}]

MgrParked == mgr = NoManager

\* CityManager.calculateViewportStats(bounds): a pending request is
\* cancelled with 0, the new resolver stored and the request posted
CallCalculateViewportStats(bounds) ==
    LET id == Len(mgr.viewport) + 1
        cancelled == IF mgr.viewportStatsResolve # 0
                     THEN [mgr.viewport EXCEPT ![mgr.viewportStatsResolve] =
                              Resolve(@, 0, 0)]
                     ELSE mgr.viewport
    IN  /\ Len(mgr.viewport) < MaxCalls
        /\ mgr' = [mgr EXCEPT
               !.viewport = Append(cancelled, NewPromise(bounds)),
               !.viewportStatsResolve = id,
               !.toWorker = Append(@, [type |-> "CALCULATE_VIEWPORT_STATS",
                                       from |-> id, arg |-> bounds])]
        /\ UNCHANGED <<gridVars, breakerVars, callerVars, queryVars, poolVars, workerVars,
                   trimVars, statsVars, rankingVars, projVars, cityVars>>

\* CityManager.discoverCitiesFromActivities(activities), the activities
\* starting at locations unique locations: the resolver is stored and the
\* request posted
CallDiscoverCities(locations) ==
    LET id == Len(mgr.discovery) + 1
    IN  /\ Len(mgr.discovery) < MaxCalls
        /\ mgr' = [mgr EXCEPT
               !.discovery = Append(@, NewPromise(0)),
               !.discoveryPromiseResolve = id,
               !.toWorker = Append(@, [type |-> "DISCOVER_CITIES",
                                       from |-> id, arg |-> locations])]
        /\ UNCHANGED <<gridVars, breakerVars, callerVars, queryVars, poolVars, workerVars,
                   trimVars, statsVars, rankingVars, projVars, cityVars>>

\* CityProcessor.discoverCitiesFromActivities up to its first await, or to
\* its end when there is no location to identify
discoverCitiesFromActivities(m, msg) ==
    IF m.isProcessing THEN m
    ELSE IF msg.arg = 0
    THEN [m EXCEPT !.toMain = Append(@, [type |-> "COMPLETE", percentage |-> 0,
                                         from |-> msg.from])]
    ELSE [m EXCEPT !.isProcessing = TRUE, !.discovering = msg.from]

\* CityProcessor.calculateViewportStats up to its await of
\* getRoadCellsForBbox, or to its return when no city with a tiles file is
\* known near the viewport
calculateViewportStats(m, msg, known) ==
    IF ~known
    THEN [m EXCEPT !.toMain = Append(@, [type |-> "VIEWPORT_STATS", percentage |-> 0,
                                         from |-> msg.from])]
    ELSE [m EXCEPT !.computing = @ \cup {[from |-> msg.from, bounds |-> msg.arg]}]

\* self.onmessage of the worker: handleMessage for the next request
HandleMessage(known) ==
    /\ mgr.toWorker # <<>>
    /\ LET msg == Head(mgr.toWorker)
           taken == [mgr EXCEPT !.toWorker = Tail(@)]
       IN  mgr' = IF msg.type = "DISCOVER_CITIES"
                  THEN discoverCitiesFromActivities(taken, msg)
                  ELSE calculateViewportStats(taken, msg, known)
    /\ UNCHANGED <<gridVars, breakerVars, callerVars, queryVars, poolVars, workerVars,
                   trimVars, statsVars, rankingVars, projVars, cityVars>>

\* getRoadCellsForBbox settles for a viewport request: the percentage is
\* posted, or 0 from the catch block
ViewportComputed(request, ok) ==
    /\ request \in mgr.computing
    /\ mgr' = [mgr EXCEPT
           !.computing = @ \ {request},
           !.toMain = Append(@, [type |-> "VIEWPORT_STATS",
                                 percentage |-> IF ok
                                                THEN ViewportPercentage(request.bounds)
                                                ELSE 0,
                                 from |-> request.from])]
    /\ UNCHANGED <<gridVars, breakerVars, callerVars, queryVars, poolVars, workerVars,
                   trimVars, statsVars, rankingVars, projVars, cityVars>>

\* the loop of discoverCitiesFromActivities has identified every location:
\* postStats("COMPLETE") and the finally block
DiscoveryCompleted ==
    /\ mgr.discovering # 0
    /\ mgr' = [mgr EXCEPT
           !.toMain = Append(@, [type |-> "COMPLETE", percentage |-> 0,
                                 from |-> mgr.discovering]),
           !.isProcessing = FALSE,
           !.discovering = 0]
    /\ UNCHANGED <<gridVars, breakerVars, callerVars, queryVars, poolVars, workerVars,
                   trimVars, statsVars, rankingVars, projVars, cityVars>>

\* worker.onmessage of the CityManager for the next message of the worker
ManagerOnMessage ==
    /\ mgr.toMain # <<>>
    /\ LET msg == Head(mgr.toMain)
           taken == [mgr EXCEPT !.toMain = Tail(@)]
       IN  mgr' =
               IF msg.type = "COMPLETE"
               THEN IF taken.discoveryPromiseResolve # 0
                    THEN [taken EXCEPT !.discovery[taken.discoveryPromiseResolve] =
                             Resolve(@, 0, msg.from)]
                    ELSE taken
               ELSE IF taken.viewportStatsResolve # 0
                    THEN [taken EXCEPT !.viewport[taken.viewportStatsResolve] =
                             Resolve(@, msg.percentage, msg.from),
                                       !.viewportStatsResolve = 0]
                    ELSE taken
    /\ UNCHANGED <<gridVars, breakerVars, callerVars, queryVars, poolVars, workerVars,
                   trimVars, statsVars, rankingVars, projVars, cityVars>>

ManagerNext ==
    \/ \E bounds \in 1..MaxBounds : CallCalculateViewportStats(bounds)
    \/ \E locations \in {0, 1} : CallDiscoverCities(locations)
    \/ \E known \in BOOLEAN : HandleMessage(known)
    \/ \E request \in mgr.computing, ok \in BOOLEAN : ViewportComputed(request, ok)
    \/ DiscoveryCompleted
    \/ ManagerOnMessage

(***************************************************************************)
(* Specification of the compaction: any cell set of the grid is compacted  *)
(***************************************************************************)
GridXs == GridLo..(GridLo + GridW - 1)
GridYs == GridLo..(GridLo + GridH - 1)
GridKeys == {cellKey(x, y) : x \in GridXs, y \in GridYs}

GridInit ==
    /\ cells \in SUBSET GridKeys
    /\ rectangles = <<>>
    /\ gridPc = "input"

\* the compaction before any call, for the specifications of other parts
GridParked ==
    /\ cells = {}
    /\ rectangles = <<>>
    /\ gridPc = "input"

\* const rectangles = mergeToRectangles(cells)
Compact ==
    /\ gridPc = "input"
    /\ rectangles' = mergeToRectangles(cells)
    /\ gridPc' = "merged"
    /\ UNCHANGED cells
    /\ UNCHANGED <<breakerVars, callerVars, queryVars, poolVars, workerVars, trimVars, statsVars,
                   rankingVars, projVars, cityVars, mgrVars>>

GridNext == Compact

(***************************************************************************)
(* Specifications                                                          *)
(***************************************************************************)
CompactInit ==
    /\ GridInit
    /\ BreakerInit
    /\ CallerInit
    /\ QueryInit
    /\ PoolParked
    /\ WorkerInit
    /\ TrimParked
    /\ StatsParked
    /\ RankingParked
    /\ ProjParked
    /\ CityParked
    /\ MgrParked

SpecCompact == CompactInit /\ [][GridNext]_vars

BreakerSpecInit ==
    /\ GridParked
    /\ BreakerInit
    /\ CallerInit
    /\ QueryInit
    /\ PoolParked
    /\ WorkerInit
    /\ TrimParked
    /\ StatsParked
    /\ RankingParked
    /\ ProjParked
    /\ CityParked
    /\ MgrParked

SpecBreaker == BreakerSpecInit /\ [][BreakerNext]_vars

Init ==
    /\ GridParked
    /\ BreakerInit
    /\ CallerInit
    /\ QueryInit
    /\ PoolParked
    /\ WorkerInit
    /\ TrimParked
    /\ StatsParked
    /\ RankingParked
    /\ ProjParked
    /\ CityParked
    /\ MgrParked

Spec == Init /\ [][Next]_vars

OverlapInit ==
    /\ GridParked
    /\ BreakerInit
    /\ CallerInit
    /\ QueryInit
    /\ PoolParked
    /\ WorkerInit
    /\ TrimParked
    /\ StatsParked
    /\ RankingParked
    /\ ProjParked
    /\ CityParked
    /\ MgrParked

SpecOverlap == OverlapInit /\ [][OverlapNext]_vars

PoolInit ==
    /\ GridParked
    /\ BreakerInit
    /\ CallerInit
    /\ QueryInit
    /\ PoolParked
    /\ WorkerInit
    /\ TrimParked
    /\ StatsParked
    /\ RankingParked
    /\ ProjParked
    /\ CityParked
    /\ MgrParked

SpecPool == PoolInit /\ [][PoolNext]_vars

WorkerSpecInit ==
    /\ GridParked
    /\ BreakerInit
    /\ CallerInit
    /\ QueryInit
    /\ PoolParked
    /\ WorkerInit
    /\ TrimParked
    /\ StatsParked
    /\ RankingParked
    /\ ProjParked
    /\ CityParked
    /\ MgrParked

SpecWorker == WorkerSpecInit /\ [][WorkerNext]_vars

SpecBusy == WorkerSpecInit /\ [][BusyNext]_vars

\* a timer that was set fires: the suspended calls of the worker go on
SpecWorkerFair ==
    /\ WorkerSpecInit
    /\ [][WorkerNext]_vars
    /\ WF_vars(ProcessContinue)
    /\ WF_vars(ReprocessContinue)

TrimSpecInit ==
    /\ GridParked
    /\ BreakerInit
    /\ CallerInit
    /\ QueryInit
    /\ PoolParked
    /\ WorkerInit
    /\ TrimInit
    /\ StatsParked
    /\ RankingParked
    /\ ProjParked
    /\ CityParked
    /\ MgrParked

SpecTrim == TrimSpecInit /\ [][TrimNext]_vars

StatsSpecInit ==
    /\ GridParked
    /\ BreakerInit
    /\ CallerInit
    /\ QueryInit
    /\ PoolParked
    /\ WorkerInit
    /\ TrimParked
    /\ StatsInit
    /\ RankingParked
    /\ ProjParked
    /\ CityParked
    /\ MgrParked

SpecStats == StatsSpecInit /\ [][StatsNext]_vars

RankingSpecInit ==
    /\ GridParked
    /\ BreakerInit
    /\ CallerInit
    /\ QueryInit
    /\ PoolParked
    /\ WorkerInit
    /\ TrimParked
    /\ StatsParked
    /\ RankingInit
    /\ ProjParked
    /\ CityParked
    /\ MgrParked

SpecRanking == RankingSpecInit /\ [][RankingNext]_vars

ProjSpecInit ==
    /\ GridParked
    /\ BreakerInit
    /\ CallerInit
    /\ QueryInit
    /\ PoolParked
    /\ WorkerInit
    /\ TrimParked
    /\ StatsParked
    /\ RankingParked
    /\ ProjInit
    /\ CityParked
    /\ MgrParked

SpecProj == ProjSpecInit /\ [][ProjNext]_vars

CitySpecInit ==
    /\ GridParked
    /\ BreakerInit
    /\ CallerInit
    /\ QueryInit
    /\ PoolParked
    /\ WorkerInit
    /\ TrimParked
    /\ StatsParked
    /\ RankingParked
    /\ ProjParked
    /\ CityParked
    /\ MgrParked

SpecCity == CitySpecInit /\ [][CityNext]_vars

\* a pending step of the tile operations of the city's query
CityTileStep ==
    \/ \E t \in Tiles, readOk \in BOOLEAN : CacheReadDone(1, t, readOk)
    \/ \E t \in Tiles : FetchFailed(1, t)
    \/ \E t \in Tiles, outcome \in {"noData", "badTile"} : FetchedNothing(1, t, outcome)
    \/ \E t \in Tiles : FetchedTile(1, t)
    \/ \E t \in Tiles, putOk \in BOOLEAN : CachePutDone(1, t, putOk)

\* each single computation terminates: the timer fires, every cache
\* operation and every fetch settles, and the settled promises are resumed
SpecCityFair ==
    /\ CitySpecInit
    /\ [][CityNext]_vars
    /\ WF_vars(TimerFired)
    /\ WF_vars(CityTileStep)
    /\ WF_vars(ReturnRoadCells(1))
    /\ WF_vars(RoadCellsComputed)

ManagerSpecInit ==
    /\ GridParked
    /\ BreakerInit
    /\ CallerInit
    /\ QueryInit
    /\ PoolParked
    /\ WorkerInit
    /\ TrimParked
    /\ StatsParked
    /\ RankingParked
    /\ ProjParked
    /\ CityParked
    /\ MgrParked

SpecManager == ManagerSpecInit /\ [][ManagerNext]_vars

\* the ports deliver every message posted, the tile query of a viewport
\* request settles and the discovery loop comes to its end
SpecManagerFair ==
    /\ ManagerSpecInit
    /\ [][ManagerNext]_vars
    /\ WF_vars(\E known \in BOOLEAN : HandleMessage(known))
    /\ WF_vars(\E request \in mgr.computing, ok \in BOOLEAN : ViewportComputed(request, ok))
    /\ WF_vars(DiscoveryCompleted)
    /\ WF_vars(ManagerOnMessage)

(***************************************************************************)
(* Claims about the compaction                                             *)
(***************************************************************************)
RectsOverlap(a, b) ==
    \E x \in GridXs, y \in GridYs : InRect(x, y, a) /\ InRect(x, y, b)

\* C2: no two rectangles returned by mergeToRectangles overlap: every cell
\* is inside the bounds of at most one returned rectangle.
C2_NoOverlap ==
    gridPc = "merged" =>
        \A i, j \in 1..Len(rectangles) :
            i # j => ~RectsOverlap(rectangles[i], rectangles[j])

\* C3: re-expanding the returned rectangles yields exactly the input set:
\* every input cell is covered and no rectangle covers a cell outside it.
C3_Lossless ==
    gridPc = "merged" =>
        UNION {rectangleToCells(rectangles[i]) : i \in 1..Len(rectangles)} = cells

\* C3 witness: a compaction that needed several rectangles, one of them
\* more than one row high and more than one column wide.
C3_Witness ==
    /\ gridPc = "merged"
    /\ Len(rectangles) >= 2
    /\ \E i \in 1..Len(rectangles) :
           /\ rectangles[i].maxY > rectangles[i].minY
           /\ rectangles[i].maxX > rectangles[i].minX

(***************************************************************************)
(* Claims about the circuit breaker                                        *)
(***************************************************************************)
\* C1: after 5 consecutive fetch failures (no successful fetch and no
\* reconfiguration since), every fetch attempt makes no network call and
\* returns null.
C1_OpenSkipsFetch ==
    [][(streak >= MAX_FAILURES /\ AttemptFetch) =>
          (/\ ev'.kind \in {"circuitOpen", "noClient"}
           /\ inflightCur' = inflightCur
           /\ inflightOld' = inflightOld)]_vars

\* C1 witness: a fetch attempt was skipped by the open breaker right after
\* the fifth consecutive failure.
C1_Witness ==
    /\ ev.kind = "circuitOpen"
    /\ streak >= MAX_FAILURES
    /\ circuitOpen
    /\ pmtiles # null

\* C5: a failure of a fetch issued on a replaced client (a previously
\* configured source) changes neither the failure counter nor the breaker
\* of the current source.
C5_NoStaleFailures ==
    ev.kind = "rejectedOld" =>
        (failureCount = ev.was /\ circuitOpen = ev.wasOpen)

\* C8: a change of the URL closes the breaker and zeroes the counter, and
\* the first fetch attempted after a change to a non-empty URL makes a
\* network call.
C8_ReconfigureAllowsFetch ==
    [][/\ (PMTILES_URL' # PMTILES_URL => (~circuitOpen' /\ failureCount' = 0))
       /\ ((fresh /\ AttemptFetch) => ev'.kind = "call")]_vars

\* C9: the breaker leaves Open only in a step that changes the URL.
C9_OpenUntilReconfigured ==
    [][(circuitOpen /\ ~circuitOpen') => PMTILES_URL' # PMTILES_URL]_vars

\* C9 witness: a fetch resolved successfully while the breaker was Open,
\* and the breaker is still Open.
C9_Witness ==
    /\ ev.kind = "data"
    /\ ev.wasOpen
    /\ circuitOpen
    /\ failureCount = 0

\* C10: a resolved fetch leaves the counter at zero, and the breaker opens
\* only in a step that completes 5 failures with no resolved fetch between.
C10_SuccessResetsCounter ==
    [][/\ (/\ ev'.kind \in {"data", "noData"}
           /\ inflightCur' + inflightOld' < inflightCur + inflightOld)
          => failureCount' = 0
       /\ (~circuitOpen /\ circuitOpen') => streak' >= MAX_FAILURES]_vars

\* C10 witness: a fetch resolved when 4 failures were counted; the counter
\* is back at zero and the breaker still Closed.
C10_Witness ==
    /\ ev.kind = "data"
    /\ ev.was = MAX_FAILURES - 1
    /\ failureCount = 0
    /\ ~circuitOpen

(***************************************************************************)
(* Claims about bbox queries and the tile cache                            *)
(***************************************************************************)
KeyOf(qr, t) == tileKey(qr.zoom, t, TileRow, qr.cellSize)

C6_FetchesCoalesced ==
    \A t \in Tiles :
        ~(/\ qs[1].status = "running" /\ qs[1].phase[t] = "fetch"
          /\ qs[2].status = "running" /\ qs[2].phase[t] = "fetch"
          /\ KeyOf(qs[1], t) = KeyOf(qs[2], t))

\* C7: no query is rejected, and a returned query has finished every tile
\* and returns the (bbox-filtered) cells of exactly the tiles that were
\* read from the cache or fetched and decoded; a tile whose fetch or decode
\* failed contributes nothing.
C7_TileFailureDoesNotAbort ==
    \A q \in Slots :
        /\ qs[q].status # "rejected"
        /\ qs[q].status = "returned" =>
              /\ \A t \in Tiles : qs[q].phase[t] \notin ActivePhases \cup {"queued"}
              /\ qs[q].result =
                     filterToBbox(
                         UNION {RoadCells(t, qs[q].cellSize) :
                                   t \in {u \in Tiles : qs[q].phase[u] \in CellPhases}},
                         qs[q].bbox[1], qs[q].bbox[2], qs[q].cellSize)

\* C7 witness: a returned query in which one tile's fetch was rejected or
\* its bytes failed to decode, and the other tile's cells were returned.
C7_Witness ==
    /\ qs[1].status = "returned"
    /\ \E t1, t2 \in Tiles :
           /\ qs[1].phase[t1] \in {"rejected", "badTile"}
           /\ qs[1].phase[t2] \in {"stored", "unstored"}
           /\ RoadCells(t2, qs[1].cellSize) \cap qs[1].result # {}

\* C11: a tile whose fetched bytes fail to decode is counted toward the
\* circuit breaker: the step in which its decode fails increments the
\* failure counter, as a rejected fetch does.
C11_DecodeFailureCounted ==
    [][\A t \in Tiles :
          (/\ qs[1].phase[t] = "fetch"
           /\ qs'[1].phase[t] = "badTile")
              => failureCount' = failureCount + 1]_vars

\* the tiles of a query, in the order in which the workers take them
TilesOf(qr) == coverTilesForBbox(qr.bbox[1], qr.bbox[2])

\* C14: when every tile operation of a query succeeded, the returned set is
\* the bbox-filtered union of the cells of all covering tiles, a function
\* of the query's arguments alone: it is the same for every order in which
\* the tile operations complete.
C14_OrderIndependent ==
    \A q \in Slots :
        (/\ qs[q].status = "returned"
         /\ qs[q].lastDone # <<>>
         /\ \A t \in SeqRange(TilesOf(qs[q])) : qs[q].phase[t] \in CellPhases)
        => qs[q].result =
               filterToBbox(
                   UNION {RoadCells(t, qs[q].cellSize) : t \in SeqRange(TilesOf(qs[q]))},
                   qs[q].bbox[1], qs[q].bbox[2], qs[q].cellSize)

\* C14 witness: a query over several tiles returned cells of each of them,
\* every tile operation succeeded, and the tile taken first from the queue
\* was the last to complete.
C14_Witness ==
    /\ qs[1].status = "returned"
    /\ Len(TilesOf(qs[1])) >= 2
    /\ \A t \in SeqRange(TilesOf(qs[1])) :
           /\ qs[1].phase[t] \in CellPhases
           /\ RoadCells(t, qs[1].cellSize) \cap qs[1].result # {}
    /\ qs[1].lastDone = <<TilesOf(qs[1])[1]>>

\* the x-coordinates of the cells that meet the modelled tiles
CellXs == 0..(NumTiles * TileSpan)

\* C15: the set returned by a bbox query is exactly the set of the cells of
\* the union over its tiles whose centre (x * cellSize + cellSize / 2 on
\* both axes) lies inside the planar bbox, bounds included; no cell outside
\* the bbox is returned.
C15_ExactBboxFilter ==
    \A q \in Slots :
        qs[q].status = "returned" =>
            LET cs == qs[q].cellSize
                lo == Min2(qs[q].bbox[1], qs[q].bbox[2])
                hi == Max2(qs[q].bbox[1], qs[q].bbox[2])
            IN  qs[q].result =
                    {cellKey(x, TileRow) : x \in
                        {c \in CellXs :
                            /\ cellKey(c, TileRow) \in qs[q].union
                            /\ 2 * lo <= 2 * c * cs + cs
                            /\ 2 * c * cs + cs <= 2 * hi
                            /\ 2 * BandMinY <= 2 * TileRow * cs + cs
                            /\ 2 * TileRow * cs + cs <= 2 * BandMaxY}}

\* C15 witness: a returned query whose filter dropped a cell of the union
\* and kept a cell whose centre lies exactly on the upper bound of the bbox.
C15_Witness ==
    /\ qs[1].status = "returned"
    /\ qs[1].union \ qs[1].result # {}
    /\ \E c \in CellXs :
           /\ cellKey(c, TileRow) \in qs[1].result
           /\ 2 * c * qs[1].cellSize + qs[1].cellSize = 2 * qs[1].bbox[2]

C12_AtMost32InFlight ==
    pool.begun - pool.finished <= 32

\* C12 witness: 32 tile operations are in flight while tiles still wait in
\* the queue.
C12_Witness ==
    /\ pool.pc = "running"
    /\ pool.begun - pool.finished = 32
    /\ Len(pool.queue) > 0

\* C13: every tile of the covering set is taken from the queue, and its
\* operation begun, at most once; the query returns only when the queue is
\* empty, every tile has been taken exactly once and every begun operation
\* has finished.
C13_EachTileOnce ==
    /\ \A t \in DOMAIN pool.started : pool.started[t] <= 1
    /\ pool.pc = "returned" =>
           /\ pool.queue = <<>>
           /\ DOMAIN pool.started = 1..pool.tiles
           /\ \A t \in 1..pool.tiles : pool.started[t] = 1
           /\ pool.begun = pool.tiles
           /\ pool.finished = pool.begun

\* C13 witness: a query over more tiles than workers has returned, so some
\* worker took more than one tile from the queue.
C13_Witness ==
    /\ pool.pc = "returned"
    /\ pool.tiles > pool.workers
    /\ pool.workers = CONCURRENCY

(***************************************************************************)
(* Claims about the activity worker                                        *)
(***************************************************************************)
\* no call of the worker is suspended and no reprocess is queued
WorkerIdle ==
    /\ worker.procRun = <<>>
    /\ worker.reproRun = <<>>
    /\ ~worker.isProcessing
    /\ ~worker.isReprocessing
    /\ ~worker.pendingReprocess

\* C17: every cell added to one visited-cell accumulation (from one
\* clearing of visitedCells to the next) is computed with the same cellSize;
\* checked where it matters most, when the worker has come to rest: a
\* cellSize change never leaves cells of two cell sizes in visitedCells.
C17_OneCellSizePerAccumulation ==
    WorkerIdle => Cardinality(worker.sizesUsed) <= 1

\* C19: once the worker is idle with skipPrivate enabled (by an
\* updateConfig: a fresh worker has it disabled), visitedCells contains
\* only cells of stored activities that are not private.
C19_PrivateActivitiesSkipped ==
    (WorkerIdle /\ worker.currentConfig.skipPrivate) =>
        worker.visitedCells \subseteq
            UNION {CellsOfActivity(id, cellSize) :
                      id \in {a \in SeqRange(worker.activityStore) : ~Activity(a).private},
                      cellSize \in CellSizeChoices}

(***************************************************************************)
(* Claims about the privacy trim                                           *)
(***************************************************************************)
\* the arc length of a polyline
RECURSIVE TotalLength(_)
TotalLength(points) ==
    IF Len(points) < 2 THEN 0
    ELSE haversineDistance(points[1], points[2]) + TotalLength(Tail(points))

\* C18: trimming a polyline by d > 0 returns an empty polyline whenever the
\* polyline's total length is less than 2 * d, whatever its number of
\* points.
C18_ShortPolylineTrimmedAway ==
    (/\ trim.pc = "done"
     /\ trim.distanceMeters > 0
     /\ TotalLength(trim.points) < 2 * trim.distanceMeters)
        => trim.result = <<>>

(***************************************************************************)
(* Claims about the coverage statistics                                    *)
(***************************************************************************)
\* the cells (x, y) of a key set
CoordsOf(keys) ==
    {c \in (GridLo - 1..GridLo + StatW) \X (GridLo - 1..GridLo + StatH) :
        cellKey(c[1], c[2]) \in keys}

\* C20: the visited count is the number of target cells c such that c
\* itself or one of the 8 cells adjacent to c is in visited: each target
\* cell is counted at most once, and a visited cell next to nothing of the
\* target adds nothing.
C20_VisitedCountDilatesTarget ==
    stats.pc = "done" =>
        stats.visitedCount =
            Cardinality(
                {c \in CoordsOf(stats.targetCells) :
                    \E v \in CoordsOf(stats.visitedCells) :
                        /\ Abs(v[1] - c[1]) <= 1
                        /\ Abs(v[2] - c[2]) <= 1})

\* C20 witness: a target cell is counted only because a diagonal neighbour
\* outside the target is visited, and another target cell, with no visited
\* cell next to it, is not counted.
C20_Witness ==
    /\ stats.pc = "done"
    /\ stats.visitedCount >= 1
    /\ stats.visitedCount < Cardinality(stats.targetCells)
    /\ \E c \in CoordsOf(stats.targetCells), v \in CoordsOf(stats.visitedCells) :
           /\ Abs(v[1] - c[1]) = 1
           /\ Abs(v[2] - c[2]) = 1
           /\ cellKey(v[1], v[2]) \notin stats.targetCells
           /\ \A u \in CoordsOf(stats.visitedCells) :
                  u # v => (Abs(u[1] - c[1]) > 1 \/ Abs(u[2] - c[2]) > 1)
    /\ \E t \in CoordsOf(stats.targetCells) :
           \A u \in CoordsOf(stats.visitedCells) :
               Abs(u[1] - t[1]) > 1 \/ Abs(u[2] - t[2]) > 1

\* C21: the visited percentage is 0 (a number, not NaN) when the target is
\* empty, whatever the visited set; otherwise it equals
\* 100 * visitedCount / |target| and lies between 0 and 100.
C21_PercentageDefined ==
    stats.pc = "done" =>
        LET pct == stats.visitedPercentage
            size == Cardinality(stats.targetCells)
        IN  /\ pct.den > 0
            /\ size = 0 => pct.num = 0
            /\ size > 0 => pct.num * size = 100 * stats.visitedCount * pct.den
            /\ RatioGeq(pct, Ratio(0, 1))
            /\ RatioGeq(Ratio(100, 1), pct)

\* C21 witness: the percentage of an empty target against a non-empty
\* visited set is 0.
C21_Witness ==
    /\ stats.pc = "done"
    /\ stats.targetCells = {}
    /\ stats.visitedCells # {}
    /\ stats.visitedPercentage.num = 0
    /\ stats.visitedPercentage.den > 0

(***************************************************************************)
(* Claims about the city statistics                                        *)
(***************************************************************************)
\* the positions of the cities that have statistics
Eligible(cities) ==
    {i \in 1..Len(cities) :
        IF cities[i].roadCells = <<>> THEN FALSE ELSE cities[i].roadCells[1] # {}}

\* C22: the list returned by computeCityStats is ordered by percentage,
\* highest first, holds min(20, number of cities with statistics) entries,
\* each the entry of a distinct city with statistics, and no city left out
\* has a higher percentage than a listed one.
C22_TopCitiesByPercentage ==
    (ranking.pc = "done" /\ ~ranking.isProcessing) =>
        LET res == ranking.result
            eligible == Eligible(ranking.cities)
            pctOf(i) == computeVisitedPercentageForCells(ranking.cities[i].roadCells[1],
                                                         ranking.visitedCells)
            listed == {res[k].cityId : k \in 1..Len(res)}
        IN  /\ Len(res) <= TopCities
            /\ Len(res) = Min2(TopCities, Cardinality(eligible))
            /\ \A k \in 1..(Len(res) - 1) :
                   RatioGeq(res[k].percentage, res[k + 1].percentage)
            /\ \A k \in 1..Len(res) :
                   /\ res[k].cityId \in eligible
                   /\ RatioEq(res[k].percentage, pctOf(res[k].cityId))
            /\ Cardinality(listed) = Len(res)
            /\ \A i \in eligible \ listed : \A k \in 1..Len(res) :
                   RatioGeq(res[k].percentage, pctOf(i))

\* C22 witness: more than 20 cities have statistics, the list holds 20 of
\* them with different percentages, and a city left out precedes a listed
\* one in the input.
C22_Witness ==
    /\ ranking.pc = "done"
    /\ ~ranking.isProcessing
    /\ Cardinality(Eligible(ranking.cities)) > TopCities
    /\ Len(ranking.result) = TopCities
    /\ ~RatioGeq(ranking.result[TopCities].percentage, ranking.result[1].percentage)
    /\ \E i \in Eligible(ranking.cities), k \in 1..Len(ranking.result) :
           /\ i < ranking.result[k].cityId
           /\ \A l \in 1..Len(ranking.result) : ranking.result[l].cityId # i

\* C23: a city whose roadCells is absent and the same city with an empty
\* roadCells lead to different city statistics: replacing an absent road
\* set by an empty one changes the list returned by getStats.
C23_AbsentAndEmptyDistinct ==
    (ranking.pc = "done" /\ ~ranking.isProcessing) =>
        \A i \in 1..Len(ranking.cities) :
            ranking.cities[i].roadCells = <<>> =>
                getStats([ranking EXCEPT !.cities[i].roadCells = <<{}>>]) # ranking.result

(***************************************************************************)
(* Claims about cell keys, pointToCell and the segment rasterization       *)
(***************************************************************************)
\* C24: parsing the key of a cell coordinate gives the coordinate back, for
\* every integer x and y, negative ones included.
C24_KeyRoundTrip ==
    (proj.op = "key" /\ proj.pc = "done") =>
        /\ proj.result.x = proj.arg.x
        /\ proj.result.y = proj.arg.y

\* C24 witness: a coordinate with negative x and negative y of two digits
\* went through cellKey and parseCellKey and came back.
C24_Witness ==
    /\ proj.op = "key" /\ proj.pc = "done"
    /\ proj.arg.x < 0 - 9 /\ proj.arg.y < 0 - 9
    /\ proj.aux[1] = "-"
    /\ proj.result = proj.arg

\* a decimal integer: an optional minus sign and at least one digit
IsIntLiteral(str) ==
    LET body == IF str # <<>> /\ Head(str) = "-" THEN Tail(str) ELSE str
    IN  body # <<>> /\ \A i \in 1..Len(body) : IsDigit(body[i])

\* a well-formed key is two decimal integers joined by one comma
WellFormedKey(key) ==
    \E i \in 1..Len(key) :
        /\ key[i] = ","
        /\ IsIntLiteral(SubSeq(key, 1, i - 1))
        /\ IsIntLiteral(SubSeq(key, i + 1, Len(key)))

\* parseCellKey(key) returned an object whose x and y are both numbers
ReturnsCoordinate(key) ==
    LET parts == Split(key, ",")
    IN  Len(parts) >= 2 /\ NumericString(parts[1]) /\ NumericString(parts[2])

\* C25: parsing a malformed key (empty, a component missing or extra, a
\* component that is not a number) is an error: the call does not return a
\* coordinate.
C25_MalformedKeyRejected ==
    (proj.op = "parse" /\ proj.pc = "done" /\ ~WellFormedKey(proj.arg)) =>
        \/ proj.aux = "thrown"
        \/ ~ReturnsCoordinate(proj.arg)

\* C26: pointToCell returns the integers (i, j) with
\* i * cellSize <= x < (i + 1) * cellSize and j * cellSize <= y < (j + 1) *
\* cellSize; a negative coordinate gets a negative index.
C26_FloorDivision ==
    (proj.op = "cell" /\ proj.pc = "done") =>
        LET c == proj.arg.cellSize
            i == proj.result.x
            j == proj.result.y
        IN  /\ i * c <= proj.arg.x /\ proj.arg.x < (i + 1) * c
            /\ j * c <= proj.arg.y /\ proj.arg.y < (j + 1) * c
            /\ proj.arg.x < 0 => i < 0
            /\ proj.arg.y < 0 => j < 0

\* C26 witness: x one metre below 0 with a cell of several metres is in
\* column -1, while y, positive and not a multiple of the cell size, is in a
\* row above 0.
C26_Witness ==
    /\ proj.op = "cell" /\ proj.pc = "done"
    /\ proj.arg.cellSize > 1
    /\ proj.arg.x = 0 - 1 /\ proj.result.x = 0 - 1
    /\ proj.arg.y > proj.arg.cellSize /\ proj.arg.y % proj.arg.cellSize # 0
    /\ proj.result.y > 0

\* C27: the rasterization samples steps + 1 evenly spaced points from p1 to
\* p2 with steps = ceil(distance / (cellSize / 2)) and maps each to a cell:
\* the cells of both end points are in the result (also with steps = 0), and
\* two consecutive samples are at most cellSize / 2 apart.
C27_SegmentSampling ==
    (proj.op = "raster" /\ proj.pc = "done") =>
        LET p1 == proj.arg.p1
            p2 == proj.arg.p2
            c == proj.arg.cellSize
            steps == proj.aux.steps
            samples == proj.aux.samples
            dx == p2.x - p1.x
            dy == p2.y - p1.y
            distSq == dx * dx + dy * dy
            den == samples[1].den
        IN  /\ (steps * c) * (steps * c) >= 4 * distSq
            /\ steps > 0 => ((steps - 1) * c) * ((steps - 1) * c) < 4 * distSq
            /\ Len(samples) = steps + 1
            /\ den > 0
            /\ samples[1].x = p1.x * den /\ samples[1].y = p1.y * den
            /\ samples[steps + 1].x = p2.x * den /\ samples[steps + 1].y = p2.y * den
            /\ \A k \in 1..steps :
                   LET gx == samples[k + 1].x - samples[k].x
                       gy == samples[k + 1].y - samples[k].y
                   IN  /\ samples[k + 1].den = den
                       /\ gx * steps = dx * den /\ gy * steps = dy * den
                       /\ 4 * (gx * gx + gy * gy) <= c * c * den * den
            /\ cellKey(p1.x \div c, p1.y \div c) \in proj.result
            /\ cellKey(p2.x \div c, p2.y \div c) \in proj.result
            /\ proj.result = {cellKey(samples[k].x \div (den * c), samples[k].y \div (den * c)) :
                                 k \in 1..(steps + 1)}

\* C27 witness: a slanted segment between end points with negative and
\* positive coordinates was sampled at interior points as well, and its end
\* points lie in two different cells of the result.
C27_Witness ==
    /\ proj.op = "raster" /\ proj.pc = "done"
    /\ proj.aux.steps >= 3
    /\ proj.arg.p1.x < 0 /\ proj.arg.p2.x > 0 /\ proj.arg.p1.y # proj.arg.p2.y
    /\ proj.arg.cellSize > 1
    /\ cellKey(proj.arg.p1.x \div proj.arg.cellSize, proj.arg.p1.y \div proj.arg.cellSize)
           # cellKey(proj.arg.p2.x \div proj.arg.cellSize, proj.arg.p2.y \div proj.arg.cellSize)
    /\ Cardinality(proj.result) >= 3

\* the centre of cell (i, j) is within cellSize / 2 of the segment p1 p2;
\* all lengths doubled to stay in the integers
CentreNearSegment(i, j, p1, p2, c) ==
    LET cx == (2 * i + 1) * c
        cy == (2 * j + 1) * c
        dx == 2 * (p2.x - p1.x)
        dy == 2 * (p2.y - p1.y)
        wx == cx - 2 * p1.x
        wy == cy - 2 * p1.y
        vx == cx - 2 * p2.x
        vy == cy - 2 * p2.y
        dd == dx * dx + dy * dy
        along == wx * dx + wy * dy
        cross == wx * dy - wy * dx
    IN  IF dd = 0 \/ along <= 0 THEN wx * wx + wy * wy <= c * c
        ELSE IF along >= dd THEN vx * vx + vy * vy <= c * c
        ELSE cross * cross <= c * c * dd

\* C28: every cell whose centre lies within cellSize / 2 of the segment is
\* in the result of the rasterization.
C28_NoTunneling ==
    (proj.op = "raster" /\ proj.pc = "done") =>
        \A i, j \in (0 - MaxSegment - 1)..(MaxSegment + 1) :
            CentreNearSegment(i, j, proj.arg.p1, proj.arg.p2, proj.arg.cellSize)
                => cellKey(i, j) \in proj.result

(***************************************************************************)
(* Claims about the road cells of the cities                               *)
(***************************************************************************)
\* MAPPING has no file for (country, region): no entry for the country, or
\* an entry without that region and without a default
NoSourceMapped(country, region) ==
    \/ country \notin DOMAIN MAPPING
    \/ /\ MAPPING[country].default = <<>>
       /\ \A r \in MAPPING[country].regions : r[1] # region

\* C29: when no tile source is mapped for a city's (country, region), its
\* road-cell computation completes in the step that starts it, leaving the
\* tile source, the breaker, the queries and the cache untouched (no tile is
\* fetched), and the city's roadCells is and stays absent.
C29_UnmappedCityStaysAbsent ==
    [][/\ \A i \in 1..Len(cityq.cities) :
              NoSourceMapped(cityq.cities[i].country, cityq.cities[i].region)
                  => cityq'.cities[i].roadCells = <<>>
       /\ (/\ cityq.pc = "timer"
           /\ NoSourceMapped(cityq.cities[cityq.current].country,
                             cityq.cities[cityq.current].region)
           /\ Len(cityq'.cities) = Len(cityq.cities)
           /\ cityq' # cityq)
          => /\ cityq.current \in cityq'.computed
             /\ cityq'.pc # "query"
             /\ UNCHANGED <<breakerVars, queryVars>>]_vars

\* C29 witness: the computation of a city without a mapped source has
\* completed and its roadCells is absent, while a city with a mapped source
\* got a non-empty roadCells and the queue is drained.
C29_Witness ==
    /\ cityq.pc = "idle"
    /\ \E i, j \in 1..Len(cityq.cities) :
           /\ NoSourceMapped(cityq.cities[i].country, cityq.cities[i].region)
           /\ cityq.cities[i].country = "United States"
           /\ i \in cityq.computed
           /\ cityq.cities[i].roadCells = <<>>
           /\ j \in cityq.computed
           /\ cityq.cities[j].roadCells # <<>>
           /\ cityq.cities[j].roadCells # <<{}>>

C31_CacheWrittenOnlyAfterDecode ==
    [][/\ \A k \in TileKeys :
              cache'[k] # cache[k] =>
                  \E t \in Tiles :
                      /\ KeyOf(qs[1], t) = k
                      /\ qs[1].phase[t] = "put"
                      /\ qs'[1].phase[t] = "stored"
       /\ (\E t \in Tiles :
              /\ qs'[1].phase[t] # qs[1].phase[t]
              /\ qs'[1].phase[t] \in {"rejected", "circuitOpen", "noClient",
                                      "noData", "badTile"})
          => cache' = cache]_vars

\* C31 witness: a query has stored one fetched and decoded tile while
\* another tile, whose bytes failed to decode, has no cache entry.
C31_Witness ==
    \E t1, t2 \in Tiles :
        /\ qs[1].phase[t1] = "stored"
        /\ cache[KeyOf(qs[1], t1)] # <<>>
        /\ qs[1].phase[t2] = "badTile"
        /\ cache[KeyOf(qs[1], t2)] = <<>>

(***************************************************************************)
(* Claims about the activity worker under an impatient main thread         *)
(***************************************************************************)
\* C32: a process message received while a reprocessing run is in progress
\* (a call of reprocessAllActivities has begun and not ended) is answered
\* with an error message and leaves the visited set, the processed activity
\* ids and the activity store unchanged.
C32_ProcessRefusedWhileReprocessing ==
    [][\A n \in ActivityCounts :
           (worker.reproRun # <<>> /\ ProcessActivities(n)) =>
               /\ worker'.posted = "error"
               /\ worker'.visitedCells = worker.visitedCells
               /\ worker'.processedActivityIds = worker.processedActivityIds
               /\ worker'.activityStore = worker.activityStore]_vars

\* the cells that processing the activities ids with one cellSize marks
RebuiltCells(ids, cellSize) ==
    UNION {CellsOfActivity(id, cellSize) : id \in ids}

\* C33: when an updateConfig that requires reprocessing arrives while
\* activities are being processed, the reprocess is queued and eventually
\* runs after the processing run, so that the worker finally becomes idle
\* with a visited set rebuilt under the new configuration; stated with the
\* least that this asks of the idle worker: its visited set holds the cells
\* of its processed activities under one and the same cellSize.
C33_QueuedReprocessRebuilds ==
    worker.pendingReprocess ~>
        /\ WorkerIdle
        /\ \E cellSize \in CellSizeChoices :
               worker.visitedCells =
                   RebuiltCells(worker.processedActivityIds, cellSize)

\* a suspended call of processActivities that has batches left to execute
BatchesLeft(run) == run.i < Len(run.toProcess)

\* C34: a processing run and a reprocessing run never execute interleaved:
\* no call of processActivities has batches left to execute while a call of
\* reprocessAllActivities has begun and not ended, whichever began first and
\* also when two process messages overlap.
C34_RunsNeverInterleave ==
    (\E r \in 1..Len(worker.procRun) : BatchesLeft(worker.procRun[r])) =>
        worker.reproRun = <<>>

\* the three collections of the worker are empty: as clear leaves them, and
\* as they are before the first message
Cleared(w) ==
    /\ w.visitedCells = {}
    /\ w.processedActivityIds = {}
    /\ w.activityStore = <<>>

\* C35: after a clear message is handled, the visited set, the processed
\* activity ids and the activity store are empty and stay empty until the
\* next init or process message, even if a processing or reprocessing run
\* was in progress when clear arrived: no step other than the handling of an
\* init or process message takes the worker out of the cleared state.
C35_ClearedUntilNextMessage ==
    [][(/\ Cleared(worker)
        /\ ~ \E n \in ActivityCounts : Initialize(n)
        /\ ~ \E n \in ActivityCounts : ProcessActivities(n))
           => Cleared(worker')]_vars

(***************************************************************************)
(* Claims about the tile source of a query                                 *)
(***************************************************************************)
\* C36: all remote fetches of one bbox query go to the tile source that was
\* configured when the query started, whatever setRoadPMTilesURL does while
\* the query is in flight; in particular any two fetches of the query that
\* are in flight together were issued on the same client.
C36_FetchesGoToOneSource ==
    \A t1, t2 \in Tiles :
        (qs[1].phase[t1] = "fetch" /\ qs[1].phase[t2] = "fetch")
            => qs[1].client[t1] = qs[1].client[t2]

(***************************************************************************)
(* Claims about the road-cell queue                                        *)
(***************************************************************************)
\* the city whose road cells are being computed, if any
CityInProgress == IF cityq.current = 0 THEN {} ELSE {cityq.current}

C38_EveryQueuedCityComputed ==
    /\ [](~cityq.isProcessingRoadCells => cityq.roadCellQueue = <<>>)
    /\ \A c \in 1..MaxQueuedCities :
           (c \in SeqRange(cityq.roadCellQueue)) ~> (c \in cityq.computed)

\* a city waits on the queue, where it was put while the loop was awaiting
\* the tile query of the city before it
C38_Witness ==
    /\ cityq.roadCellQueue # <<>>
    /\ cityq.isProcessingRoadCells
    /\ cityq.pc = "query"
    /\ cityq.current \notin SeqRange(cityq.roadCellQueue)

(***************************************************************************)
(* Claims about the promises of the city manager                           *)
(***************************************************************************)
\* C39: each promise returned by the worker-backed calculateViewportStats
\* resolves exactly once, either with 0 because a newer request superseded
\* it or with the percentage computed for its own bounds; it never resolves
\* with the result computed for an older request.  A promise that is
\* settled was settled by one call of its resolver: by the cancellation of
\* a later call, with 0, or by the answer to its own request, the
\* percentage of its own bounds (0 when the worker found nothing).
C39_ViewportPromiseOwnResult ==
    \A id \in 1..Len(mgr.viewport) :
        LET promise == mgr.viewport[id]
        IN  /\ promise.calls <= 1
            /\ promise.calls = 1 =>
                   \/ /\ promise.from = 0
                      /\ promise.value = 0
                      /\ id < Len(mgr.viewport)
                   \/ /\ promise.from = id
                      /\ promise.value \in {0, ViewportPercentage(promise.bounds)}

\* C40: every promise returned by the worker-backed
\* discoverCitiesFromActivities eventually resolves with the statistics of a
\* completed discovery, including when it is called while a previous
\* discovery is still running in the worker.
C40_DiscoveryPromiseResolves ==
    \A id \in 1..MaxCalls :
        (Len(mgr.discovery) >= id) ~>
            (Len(mgr.discovery) >= id /\ mgr.discovery[id].calls > 0)

====
